---- MODULE Spec2Model ----
(***************************************************************************)
(* Reslify: a DHT file node.  The model covers the rendezvous/announce     *)
(* service (DHTService), the peer request protocol run on every inbound    *)
(* connection, the Cassandra metadata store (db.js) and the startup and    *)
(* rehydration code of the two server entry points found in the           *)
(* repository (server.js and the variant kept in unnamed/part_000).        *)
(*                                                                         *)
(* Strings that the code inspects character by character (request bytes,   *)
(* file ids, file names) are sequences of one-character strings; "nl" is   *)
(* the newline and "sp" a blank.  File contents are sequences of bytes.    *)
(***************************************************************************)
EXTENDS Integers, Sequences, FiniteSets

\* ---------------------------------------------------------------- bounds

\* Longest request buffer the model lets a peer build (the code has no cap).
MaxReq == 2

\* Number of concurrent callers of announceFile in the service-level model.
MaxCallers == 2

\* ------------------------------------------------------ program constants

PORT == 3000

SERVER_ADDRESS == <<"127.0.0.1", PORT>>

\* ------------------------------------------------------------ input sets

NL == "nl"
SP == "sp"

\* Peer connections.
Conns == {1, 2}

Callers == 1..MaxCallers

Paths == {"p1", "p2"}

\* File ids: two plain ids and one that is a single blank.
FileIds == { <<"a">>, <<"b">>, <<SP>> }

TxtName == <<"a", ".", "t", "x", "t">>
PdfName == <<"R", ".", "P", "D", "F">>
BareName == <<"x">>

FileNames == { TxtName, PdfName, BareName }

\* Byte contents a file at a path may have: one byte (two pad characters),
\* four bytes (a full group and a padded one), two bytes (one pad character).
Contents(p) ==
  IF p = "p1" THEN { <<77>>, <<72, 105, 33, 10>> } ELSE { <<255, 0>> }

\* Chunks a peer may send in one data event.
Chunks == { <<"a">>, <<NL>>, <<"a", NL>>, <<"b", NL>>, <<SP, NL>>, <<NL, "a">> }

\* Argument tuples announceFile is called with: fileId, filePath, fileName,
\* fileSize.  The announced size need not be the size on disk.
AnnounceArgs ==
  { [fileId |-> <<"a">>, filePath |-> "p1", fileName |-> TxtName, fileSize |-> 1],
    [fileId |-> <<"a">>, filePath |-> "p2", fileName |-> PdfName, fileSize |-> 7],
    [fileId |-> <<"b">>, filePath |-> "p2", fileName |-> BareName, fileSize |-> 2],
    [fileId |-> <<SP>>, filePath |-> "p1", fileName |-> TxtName, fileSize |-> 1] }

\* ------------------------------------------------------- string helpers

IsSpace(ch) == ch \in {SP, NL}

Includes(s, ch) == \E i \in 1..Len(s) : s[i] = ch

RECURSIVE TrimStart(_)
TrimStart(s) ==
  IF s = <<>> THEN <<>>
  ELSE IF IsSpace(Head(s)) THEN TrimStart(Tail(s)) ELSE s

RECURSIVE TrimEnd(_)
TrimEnd(s) ==
  IF s = <<>> THEN <<>>
  ELSE IF IsSpace(s[Len(s)]) THEN TrimEnd(SubSeq(s, 1, Len(s) - 1)) ELSE s

\* String.prototype.trim
Trim(s) == TrimEnd(TrimStart(s))

\* Buffer.toString('base64'): sextets 0..63, and 64 for the pad character.
PAD == 64

RECURSIVE Base64Encode(_)
Base64Encode(b) ==
  IF Len(b) = 0 THEN <<>>
  ELSE IF Len(b) = 1 THEN
    LET n == b[1] * 65536
    IN  << n \div 262144, (n \div 4096) % 64, PAD, PAD >>
  ELSE IF Len(b) = 2 THEN
    LET n == b[1] * 65536 + b[2] * 256
    IN  << n \div 262144, (n \div 4096) % 64, (n \div 64) % 64, PAD >>
  ELSE
    LET n == b[1] * 65536 + b[2] * 256 + b[3]
    IN  << n \div 262144, (n \div 4096) % 64, (n \div 64) % 64, n % 64 >>
        \o Base64Encode(SubSeq(b, 4, Len(b)))

\* Base64 decoding (RFC 4648), as a peer that receives the response applies
\* it to content; used to state the round trip.
RECURSIVE Base64Decode(_)
Base64Decode(s) ==
  IF Len(s) < 4 THEN <<>>
  ELSE
    LET v(i) == IF s[i] = PAD THEN 0 ELSE s[i]
        n == v(1) * 262144 + v(2) * 4096 + v(3) * 64 + v(4)
        all == << n \div 65536, (n \div 256) % 256, n % 256 >>
        k == IF s[3] = PAD THEN 1 ELSE IF s[4] = PAD THEN 2 ELSE 3
    IN  SubSeq(all, 1, k) \o Base64Decode(SubSeq(s, 5, Len(s)))

\* The ASCII letters, in alphabet order.
UpperLetters ==
  << "A", "B", "C", "D", "E", "F", "G", "H", "I", "J", "K", "L", "M",
     "N", "O", "P", "Q", "R", "S", "T", "U", "V", "W", "X", "Y", "Z" >>

LowerLetters ==
  << "a", "b", "c", "d", "e", "f", "g", "h", "i", "j", "k", "l", "m",
     "n", "o", "p", "q", "r", "s", "t", "u", "v", "w", "x", "y", "z" >>

\* String.prototype.toLowerCase on one ASCII character: each upper-case
\* letter has its lower-case letter, every other character is kept.
LowerOfUpper ==
  [ch \in { UpperLetters[i] : i \in 1..Len(UpperLetters) } |->
     LowerLetters[CHOOSE i \in 1..Len(UpperLetters) : UpperLetters[i] = ch]]

LowerChar(ch) == IF ch \in DOMAIN LowerOfUpper THEN LowerOfUpper[ch] ELSE ch

ToLowerCase(s) == [i \in 1..Len(s) |-> LowerChar(s[i])]

\* path.extname: from the last "." to the end; "" when there is no "." or
\* the only "." is the first character of the name.
ExtName(s) ==
  LET dots == { i \in 1..Len(s) : s[i] = "." }
  IN  IF dots = {} THEN <<>>
      ELSE LET last == CHOOSE i \in dots : \A j \in dots : j <= i
           IN  IF last = 1 THEN <<>> ELSE SubSeq(s, last, Len(s))

\* getMimeType looking the extension up as it is written.
getMimeTypeCaseSensitive(fileName) ==
  LET ext == ExtName(fileName)
  IN  CASE ext = <<".", "t", "x", "t">> -> "text/plain"
        [] ext = <<".", "p", "d", "f">> -> "application/pdf"
        [] ext = <<".", "j", "p", "g">> -> "image/jpeg"
        [] ext = <<".", "j", "p", "e", "g">> -> "image/jpeg"
        [] ext = <<".", "p", "n", "g">> -> "image/png"
        [] ext = <<".", "g", "i", "f">> -> "image/gif"
        [] ext = <<".", "j", "s", "o", "n">> -> "application/json"
        [] ext = <<".", "z", "i", "p">> -> "application/zip"
        [] ext = <<".", "d", "o", "c">> -> "application/msword"
        [] ext = <<".", "d", "o", "c", "x">> ->
             "application/vnd.openxmlformats-officedocument.wordprocessingml.document"
        [] ext = <<".", "m", "p", "4">> -> "video/mp4"
        [] ext = <<".", "m", "p", "3">> -> "audio/mpeg"
        [] OTHER -> "application/octet-stream"

getMimeType(fileName) ==
  LET ext == ToLowerCase(ExtName(fileName))
  IN  CASE ext = <<".", "t", "x", "t">> -> "text/plain"
        [] ext = <<".", "p", "d", "f">> -> "application/pdf"
        [] ext = <<".", "j", "p", "g">> -> "image/jpeg"
        [] ext = <<".", "j", "p", "e", "g">> -> "image/jpeg"
        [] ext = <<".", "p", "n", "g">> -> "image/png"
        [] ext = <<".", "g", "i", "f">> -> "image/gif"
        [] ext = <<".", "j", "s", "o", "n">> -> "application/json"
        [] ext = <<".", "z", "i", "p">> -> "application/zip"
        [] ext = <<".", "d", "o", "c">> -> "application/msword"
        [] ext = <<".", "d", "o", "c", "x">> ->
             "application/vnd.openxmlformats-officedocument.wordprocessingml.document"
        [] ext = <<".", "m", "p", "4">> -> "video/mp4"
        [] ext = <<".", "m", "p", "3">> -> "audio/mpeg"
        [] OTHER -> "application/octet-stream"

\* crypto.createHash('sha256').update(fileId).digest(): the digest is kept
\* symbolic, as a collision-free function of its input.
Topic(fileId) == <<"sha256", fileId>>

Topics == { Topic(f) : f \in FileIds }

\* Map.set and Map.delete on a function with a finite domain.
MapSet(m, k, v) == [x \in (DOMAIN m) \cup {k} |-> IF x = k THEN v ELSE m[x]]

MapDelete(m, k) == [x \in (DOMAIN m) \ {k} |-> m[x]]

EmptyMap == [x \in {} |-> 0]

\* ----------------------------------------------------------------- state

VARIABLES
  storedFiles,   \* DHTService.storedFiles: fileId -> metadata
  fileIdToPath,  \* DHTService.fileIdToPath: fileId -> filePath
  joinState,     \* swarm membership per topic: "none", "pending", "flushed"
  calls,         \* announceFile / uploadFile invocations in flight, per caller
  disk,          \* the file system: path -> bytes, for the paths that exist
  connState,     \* per connection: "idle", "open", "ended", "closed"
  requestData,   \* per connection: the handler's requestData buffer
  writes,        \* per connection: number of documents conn.write delivered
  lastWrite,     \* per connection: the last document delivered, as <<doc>>
  timers,        \* per connection: pending setTimeout(() => conn.end(), 100)
  lookups,       \* per connection: number of lookups in storedFiles
  diskReads,     \* per connection: number of fs.readFileSync calls
  errorLog,      \* connection errors logged by conn.on('error')
  variant,       \* which entry point runs: "server.js" or "part_000"
  pc,            \* startServer: "new", "init", "rehydrate", "listening", "failed"
  rpc,           \* rehydrateDHT: "new", "list", "loop", "announce", "done"
  files,         \* rehydrateDHT: the list returned by db.getAllFiles()
  idx,           \* rehydrateDHT: index of the record being processed
  rehydrateLog,  \* rehydrateDHT: per processed record, what was done with it
  db,            \* Cassandra table files: the rows, in listing order
  dbConnected,   \* whether initializeDatabase has connected the client
  storeOps,      \* MetadataStore round trips issued so far (their names)
  httpLog,       \* the last facade response sent, as <<handler, status>>
  listening,     \* whether app.listen has been called
  exitCode,      \* "none", or the status process.exit was called with ("0", "1")
  shutdownLog,   \* what the SIGINT handler has done so far, in order
  accessLogs,    \* the rows of table access_logs
  client         \* a downloading or publishing client's lookup: timer, promise, connection

vars ==
  << storedFiles, fileIdToPath, joinState, calls, disk, connState, requestData,
     writes, lastWrite, timers, lookups, diskReads, errorLog, variant, pc, rpc, files,
     idx, rehydrateLog, db, dbConnected, storeOps, httpLog, listening, exitCode,
     shutdownLog, accessLogs, client >>

serviceVars == << storedFiles, fileIdToPath, joinState >>

connVars ==
  << connState, requestData, writes, lastWrite, timers, lookups, diskReads, errorLog >>

startupVars ==
  << variant, pc, rpc, files, idx, rehydrateLog, dbConnected, storeOps,
     listening, exitCode,
     shutdownLog, accessLogs, client >>

Running == exitCode = "none"

IdleCall == [st |-> "idle", kind |-> "api"]

\* A client object after its constructor: no lookup started.
IdleClient ==
  [kind |-> "none", fileId |-> <<>>, topic |-> <<>>, joins |-> 0, timer |-> "none",
   promise |-> "none", settles |-> 0, conn |-> "none", sent |-> <<>>, saved |-> 0]

\* The state right after `new DHTService()`: empty maps, no topic joined, no
\* connection yet.
ServiceInit ==
  /\ storedFiles = EmptyMap
  /\ fileIdToPath = EmptyMap
  /\ joinState = [t \in Topics |-> "none"]
  /\ calls = [k \in Callers |-> IdleCall]
  /\ connState = [c \in Conns |-> "idle"]
  /\ requestData = [c \in Conns |-> <<>>]
  /\ writes = [c \in Conns |-> 0]
  /\ lastWrite = [c \in Conns |-> <<>>]
  /\ timers = [c \in Conns |-> 0]
  /\ lookups = [c \in Conns |-> 0]
  /\ diskReads = [c \in Conns |-> 0]
  /\ errorLog = {}

\* ------------------------------------------------------------ DHTService

\* announceFile keeping the entry a fileId already has instead of
\* overwriting it.
AnnounceFileSyncKeepFirst(a) ==
  /\ storedFiles' =
       IF a.fileId \in DOMAIN storedFiles THEN storedFiles
       ELSE MapSet(storedFiles, a.fileId,
                   [filePath |-> a.filePath, fileName |-> a.fileName,
                    topic |-> Topic(a.fileId), size |-> a.fileSize,
                    serverAddress |-> SERVER_ADDRESS])
  /\ fileIdToPath' =
       IF a.fileId \in DOMAIN fileIdToPath THEN fileIdToPath
       ELSE MapSet(fileIdToPath, a.fileId, a.filePath)
  /\ joinState' = [joinState EXCEPT ![Topic(a.fileId)] =
                     IF @ = "flushed" THEN "flushed" ELSE "pending"]

\* announceFile writing fileIdToPath only for an id it does not hold yet.
AnnounceFileSyncPathOnce(a) ==
  /\ storedFiles' = MapSet(storedFiles, a.fileId,
                           [filePath |-> a.filePath, fileName |-> a.fileName,
                            topic |-> Topic(a.fileId), size |-> a.fileSize,
                            serverAddress |-> SERVER_ADDRESS])
  /\ fileIdToPath' =
       IF a.fileId \in DOMAIN fileIdToPath THEN fileIdToPath
       ELSE MapSet(fileIdToPath, a.fileId, a.filePath)
  /\ joinState' = [joinState EXCEPT ![Topic(a.fileId)] =
                     IF @ = "flushed" THEN "flushed" ELSE "pending"]

\* announceFile up to its await: the two Map.set calls and swarm.join.  A
\* topic that has already been propagated stays discoverable when it is
\* joined again.
AnnounceFileSync(a) ==
  /\ storedFiles' = MapSet(storedFiles, a.fileId,
                           [filePath |-> a.filePath, fileName |-> a.fileName,
                            topic |-> Topic(a.fileId), size |-> a.fileSize,
                            serverAddress |-> SERVER_ADDRESS])
  /\ fileIdToPath' = MapSet(fileIdToPath, a.fileId, a.filePath)
  /\ joinState' = [joinState EXCEPT ![Topic(a.fileId)] =
                     IF @ = "flushed" THEN "flushed" ELSE "pending"]

\* The value announceFile returns.
AnnounceResult(a) ==
  [fileId |-> a.fileId, fileName |-> a.fileName, topic |-> Topic(a.fileId),
   serverAddress |-> SERVER_ADDRESS]

\* announceFile without the await: the result is returned at once.
FlushNotAwaited(a) == TRUE

\* `await this.swarm.flush()` resolves only once the join has been propagated.
FlushResolved(a) == joinState[Topic(a.fileId)] = "flushed"

getFilePath(fileId) ==
  IF fileId \in DOMAIN fileIdToPath THEN <<fileIdToPath[fileId]>> ELSE <<>>

getFileMetadata(fileId) ==
  IF fileId \in DOMAIN storedFiles THEN <<storedFiles[fileId]>> ELSE <<>>

hasFile(fileId) == fileId \in DOMAIN storedFiles

\* A caller invokes announceFile(a): the synchronous part runs, then the call
\* waits for the flush.
AnnounceFile(k, a) ==
  /\ Running
  /\ calls[k].st \in {"idle", "ok", "err"}
  /\ AnnounceFileSync(a)
  /\ calls' = [calls EXCEPT ![k] = [st |-> "flush", kind |-> "api", args |-> a]]
  /\ UNCHANGED << disk, connVars, startupVars, db, httpLog >>

\* The flush resolves and announceFile returns its result to the caller; an
\* uploadFile handler then answers 200.
AnnounceReturn(k) ==
  /\ Running
  /\ calls[k].st = "flush"
  /\ FlushResolved(calls[k].args)
  /\ calls' = [calls EXCEPT ![k] =
                 [st |-> "ok", kind |-> @.kind, args |-> @.args,
                  result |-> AnnounceResult(@.args)]]
  /\ httpLog' = IF calls[k].kind = "upload" THEN <<"upload", 200>> ELSE httpLog
  /\ UNCHANGED << serviceVars, disk, connVars, startupVars, db >>

\* The rejection of the flush reaching no catch block: the
\* unhandledRejection handler calls process.exit(1).
AnnounceThrowUncaught(k) ==
  /\ Running
  /\ calls[k].st = "flush"
  /\ calls' = [calls EXCEPT ![k] = [st |-> "err", kind |-> @.kind, args |-> @.args]]
  /\ exitCode' = "1"
  /\ UNCHANGED << serviceVars, disk, connVars, variant, pc, rpc, files, idx,
                  rehydrateLog, dbConnected, storeOps, listening, db, httpLog,
                  shutdownLog, accessLogs, client >>

\* announceFile undoing its registration when the flush rejects.
AnnounceThrowRollback(k) ==
  /\ Running
  /\ calls[k].st = "flush"
  /\ calls' = [calls EXCEPT ![k] = [st |-> "err", kind |-> @.kind, args |-> @.args]]
  /\ httpLog' = IF calls[k].kind = "upload" THEN <<"upload", 500>> ELSE httpLog
  /\ storedFiles' = MapDelete(storedFiles, calls[k].args.fileId)
  /\ fileIdToPath' = MapDelete(fileIdToPath, calls[k].args.fileId)
  /\ UNCHANGED << joinState, disk, connVars, startupVars, db >>

\* The flush rejects and announceFile throws to the caller; an uploadFile
\* handler catches it and answers 500.
AnnounceThrow(k) ==
  /\ Running
  /\ calls[k].st = "flush"
  /\ calls' = [calls EXCEPT ![k] = [st |-> "err", kind |-> @.kind, args |-> @.args]]
  /\ httpLog' = IF calls[k].kind = "upload" THEN <<"upload", 500>> ELSE httpLog
  /\ UNCHANGED << serviceVars, disk, connVars, startupVars, db >>

\* The DHT finishes propagating a pending join (the network's step).
JoinPropagate(t) ==
  /\ Running
  /\ joinState[t] = "pending"
  /\ joinState' = [joinState EXCEPT ![t] = "flushed"]
  /\ UNCHANGED << storedFiles, fileIdToPath, calls, disk, connVars, startupVars, db, httpLog >>

\* ------------------------------------------------------- RequestProtocol

\* The response with size taken from the stored metadata instead of the
\* bytes read.
RespondStoredSize(req) ==
  LET fileId == Trim(req)
  IN  IF fileId \in DOMAIN storedFiles
      THEN LET fileInfo == storedFiles[fileId]
           IN  IF fileInfo.filePath \in DOMAIN disk
               THEN LET fileContent == disk[fileInfo.filePath]
                    IN  [success |-> TRUE,
                         fileId |-> fileId,
                         fileName |-> fileInfo.fileName,
                         size |-> fileInfo.size,
                         mimeType |-> getMimeType(fileInfo.fileName),
                         serverAddress |-> SERVER_ADDRESS,
                         content |-> Base64Encode(fileContent)]
               ELSE [success |-> FALSE, error |-> "Failed to read file",
                     message |-> "ENOENT"]
      ELSE [success |-> FALSE, error |-> "File not found",
            message |-> <<"No file with ID: ", fileId>>]

\* The response the data handler builds once requestData holds a newline.
Respond(req) ==
  LET fileId == Trim(req)
  IN  IF fileId \in DOMAIN storedFiles
      THEN LET fileInfo == storedFiles[fileId]
           IN  IF fileInfo.filePath \in DOMAIN disk
               THEN LET fileContent == disk[fileInfo.filePath]
                    IN  [success |-> TRUE,
                         fileId |-> fileId,
                         fileName |-> fileInfo.fileName,
                         size |-> Len(fileContent),
                         mimeType |-> getMimeType(fileInfo.fileName),
                         serverAddress |-> SERVER_ADDRESS,
                         content |-> Base64Encode(fileContent)]
               ELSE [success |-> FALSE, error |-> "Failed to read file",
                     message |-> "ENOENT"]
      ELSE [success |-> FALSE, error |-> "File not found",
            message |-> <<"No file with ID: ", fileId>>]

\* The handler reading the file before it looks the id up.
ReadsFileFirst(req) == TRUE

\* Whether the handler reaches fs.readFileSync for this request.
ReadsFile(req) == Trim(req) \in DOMAIN storedFiles

\* The data handler dispatching as soon as any byte has arrived.
RequestCompleteAnyData(req) == req # <<>>

\* Whether the data handler enters its `if (requestData.includes('\n'))` body.
RequestComplete(req) == Includes(req, NL)

\* swarm.on('connection'): a peer connects; requestData = ''.
Connect(c) ==
  /\ Running
  /\ connState[c] = "idle"
  /\ connState' = [connState EXCEPT ![c] = "open"]
  /\ UNCHANGED << serviceVars, calls, disk, requestData, writes, lastWrite, timers, lookups,
                  diskReads, errorLog, startupVars, db, httpLog >>

\* The data handler without the try/catch around fs.readFileSync: a failed
\* read is an uncaught exception, and the process exits.
DataReadUncaught(c, d) ==
  /\ Running
  /\ connState[c] \in {"open", "ended"}
  /\ Len(requestData[c]) + Len(d) <= MaxReq
  /\ requestData' = [requestData EXCEPT ![c] = @ \o d]
  /\ IF RequestComplete(requestData'[c])
     THEN /\ lookups' = [lookups EXCEPT ![c] = @ + 1]
          /\ diskReads' = [diskReads EXCEPT ![c] =
                             IF ReadsFile(requestData'[c]) THEN @ + 1 ELSE @]
          /\ IF ReadsFile(requestData'[c]) /\ ~Respond(requestData'[c]).success
             THEN /\ exitCode' = "1"
                  /\ UNCHANGED << writes, lastWrite, timers >>
             ELSE /\ writes' = [writes EXCEPT ![c] =
                                  IF connState[c] = "open" THEN @ + 1 ELSE @]
                  /\ lastWrite' = [lastWrite EXCEPT ![c] =
                                     IF connState[c] = "open"
                                     THEN <<Respond(requestData'[c])>> ELSE @]
                  /\ timers' = [timers EXCEPT ![c] = @ + 1]
                  /\ UNCHANGED exitCode
     ELSE UNCHANGED << lookups, diskReads, writes, lastWrite, timers, exitCode >>
  /\ UNCHANGED << serviceVars, calls, disk, connState, errorLog, variant, pc, rpc,
                  files, idx, rehydrateLog, dbConnected, storeOps, listening, db,
                  httpLog, shutdownLog, accessLogs, client >>

\* The data handler with requestData declared outside the connection
\* callback: one buffer shared by all connections.
DataSharedBuffer(c, d) ==
  /\ Running
  /\ connState[c] \in {"open", "ended"}
  /\ \A o \in Conns : Len(requestData[o]) + Len(d) <= MaxReq
  /\ requestData' = [o \in Conns |-> requestData[o] \o d]
  /\ IF RequestComplete(requestData'[c])
     THEN /\ lookups' = [lookups EXCEPT ![c] = @ + 1]
          /\ diskReads' = [diskReads EXCEPT ![c] =
                             IF ReadsFile(requestData'[c]) THEN @ + 1 ELSE @]
          /\ writes' = [writes EXCEPT ![c] = IF connState[c] = "open" THEN @ + 1 ELSE @]
          /\ lastWrite' = [lastWrite EXCEPT ![c] =
                             IF connState[c] = "open"
                             THEN <<Respond(requestData'[c])>> ELSE @]
          /\ timers' = [timers EXCEPT ![c] = @ + 1]
     ELSE UNCHANGED << lookups, diskReads, writes, lastWrite, timers >>
  /\ UNCHANGED << serviceVars, calls, disk, connState, errorLog, startupVars, db, httpLog >>

\* conn.on('data'): append the chunk; if the buffer now holds a newline, look
\* the trimmed buffer up, write the response and schedule conn.end().  A
\* write after the server has ended its side delivers nothing.
Data(c, d) ==
  /\ Running
  /\ connState[c] \in {"open", "ended"}
  /\ Len(requestData[c]) + Len(d) <= MaxReq
  /\ requestData' = [requestData EXCEPT ![c] = @ \o d]
  /\ IF RequestComplete(requestData'[c])
     THEN /\ lookups' = [lookups EXCEPT ![c] = @ + 1]
          /\ diskReads' = [diskReads EXCEPT ![c] =
                             IF ReadsFile(requestData'[c]) THEN @ + 1 ELSE @]
          /\ writes' = [writes EXCEPT ![c] = IF connState[c] = "open" THEN @ + 1 ELSE @]
          /\ lastWrite' = [lastWrite EXCEPT ![c] =
                             IF connState[c] = "open"
                             THEN <<Respond(requestData'[c])>> ELSE @]
          /\ timers' = [timers EXCEPT ![c] = @ + 1]
     ELSE UNCHANGED << lookups, diskReads, writes, lastWrite, timers >>
  /\ UNCHANGED << serviceVars, calls, disk, connState, errorLog, startupVars, db, httpLog >>

\* A setTimeout(() => conn.end(), 100) fires.
TimerEnd(c) ==
  /\ Running
  /\ timers[c] > 0
  /\ timers' = [timers EXCEPT ![c] = @ - 1]
  /\ connState' = [connState EXCEPT ![c] = IF @ = "open" THEN "ended" ELSE @]
  /\ UNCHANGED << serviceVars, calls, disk, requestData, writes, lastWrite, lookups,
                  diskReads, errorLog, startupVars, db, httpLog >>

\* The peer closes its side; no further event reaches the handlers.
PeerClose(c) ==
  /\ Running
  /\ connState[c] \in {"open", "ended"}
  /\ connState' = [connState EXCEPT ![c] = "closed"]
  /\ UNCHANGED << serviceVars, calls, disk, requestData, writes, lastWrite, timers, lookups,
                  diskReads, errorLog, startupVars, db, httpLog >>

\* conn.on('error'): the connection fails; the error is logged unless it is a
\* reset.
ConnError(c, code) ==
  /\ Running
  /\ connState[c] \in {"open", "ended"}
  /\ connState' = [connState EXCEPT ![c] = "closed"]
  /\ errorLog' = IF code # "ECONNRESET" THEN errorLog \cup {<<c, code>>} ELSE errorLog
  /\ UNCHANGED << serviceVars, calls, disk, requestData, writes, lastWrite, timers, lookups,
                  diskReads, startupVars, db, httpLog >>

\* ------------------------------------------------------------ file system

\* A file appears at a path (the upload middleware saves it, or a volume is
\* remounted).
WriteFile(p, b) ==
  /\ p \notin DOMAIN disk
  /\ disk' = MapSet(disk, p, b)
  /\ UNCHANGED << serviceVars, calls, connVars, startupVars, db, httpLog >>

\* A file disappears from disk.
RemoveFile(p) ==
  /\ p \in DOMAIN disk
  /\ disk' = MapDelete(disk, p)
  /\ UNCHANGED << serviceVars, calls, connVars, startupVars, db, httpLog >>

\* ------------------------------------------- service-level specification

\* The node is up: the service was constructed and the process is past
\* startup, with table t and disk d.
ServingInit(t, d) ==
  /\ ServiceInit
  /\ disk = d
  /\ variant = "server.js"
  /\ pc = "listening"
  /\ rpc = "done"
  /\ files = <<>>
  /\ idx = 0
  /\ rehydrateLog = <<>>
  /\ db = t
  /\ dbConnected = TRUE
  /\ storeOps = {"initialize", "list"}
  /\ httpLog = <<>>
  /\ listening = TRUE
  /\ exitCode = "none"
  /\ shutdownLog = <<>>
  /\ accessLogs = <<>>
  /\ client = IdleClient

Init == ServingInit(<<>>, EmptyMap)

\* DHTService used through its interface: callers announce, the DHT
\* propagates joins, flushes resolve or reject.
Next ==
  \/ \E k \in Callers, a \in AnnounceArgs : AnnounceFile(k, a)
  \/ \E k \in Callers : AnnounceReturn(k)
  \/ \E k \in Callers : AnnounceThrow(k)
  \/ \E t \in Topics : JoinPropagate(t)

Spec == Init /\ [][Next]_vars

\* --------------------------------------------- peer-protocol specification

\* The connection and the caller the peer-protocol model drives.
PeerConn == 1

PeerCaller == 1

\* One caller announces files, the file system changes and one peer
\* connection sends chunks in any split.
NextPeer ==
  \/ \E a \in AnnounceArgs : AnnounceFile(PeerCaller, a)
  \/ AnnounceReturn(PeerCaller)
  \/ AnnounceThrow(PeerCaller)
  \/ \E t \in Topics : JoinPropagate(t)
  \/ Connect(PeerConn)
  \/ \E d \in Chunks : Data(PeerConn, d)
  \/ TimerEnd(PeerConn)
  \/ PeerClose(PeerConn)
  \/ \E code \in {"ECONNRESET", "EPIPE"} : ConnError(PeerConn, code)
  \/ \E p \in Paths : \E b \in Contents(p) : WriteFile(p, b)
  \/ \E p \in Paths : RemoveFile(p)

SpecPeer == Init /\ [][NextPeer]_vars

\* ------------------------------------------------------ peer protocol

\* Connection c's whole request is the text f followed by a newline, and
\* this step's chunk completes it.
SendsRequest(c, f) ==
  /\ requestData'[c] # requestData[c]
  /\ requestData'[c] = f \o <<NL>>

\* The document this step writes on c is the successful response for f: the
\* announced name, the size and the bytes of the file at the announced path.
RoundTripResponse(c, f) ==
  LET bytes == disk[storedFiles[f].filePath]
  IN  /\ writes'[c] = writes[c] + 1
      /\ Len(lastWrite'[c]) = 1
      /\ lastWrite'[c][1].success
      /\ lastWrite'[c][1].fileId = f
      /\ lastWrite'[c][1].fileName = storedFiles[f].fileName
      /\ lastWrite'[c][1].size = Len(bytes)
      /\ Base64Decode(lastWrite'[c][1].content) = bytes

\* C1 (as amended): for a fileId f with no leading or trailing whitespace,
\* once announceFile(f, P, n, _) has set the mapping and while the file at P
\* exists, a connection that sends f followed by a newline is written a
\* response with success = true, fileId = f, fileName = n, size = the number
\* of bytes of the file at P and content that base64-decodes to those bytes.
C1_RoundTrip ==
  [][\A c \in Conns, f \in FileIds :
        ( /\ SendsRequest(c, f)
          /\ Trim(f) = f
          /\ f \in DOMAIN storedFiles
          /\ storedFiles[f].filePath \in DOMAIN disk )
        => RoundTripResponse(c, f)]_vars

\* C1 as stated, for any fileId: the same round trip without the condition
\* on whitespace.
C1_RoundTripAnyId ==
  [][\A c \in Conns, f \in FileIds :
        ( /\ SendsRequest(c, f)
          /\ f \in DOMAIN storedFiles
          /\ storedFiles[f].filePath \in DOMAIN disk )
        => RoundTripResponse(c, f)]_vars

\* A completed announce of "a" followed by the request "a\n", answered with
\* the file's bytes and a size that differs from the announced one.
C1_Witness ==
  \E c \in Conns :
    /\ calls[PeerCaller].st = "ok"
    /\ calls[PeerCaller].args.fileId = <<"a">>
    /\ requestData[c] = <<"a", NL>>
    /\ writes[c] = 1
    /\ lastWrite[c][1].success
    /\ lastWrite[c][1].fileId = <<"a">>
    /\ storedFiles[<<"a">>].filePath \in DOMAIN disk
    /\ Base64Decode(lastWrite[c][1].content) = disk[storedFiles[<<"a">>].filePath]
    /\ lastWrite[c][1].size = Len(disk[storedFiles[<<"a">>].filePath])
    /\ lastWrite[c][1].size # storedFiles[<<"a">>].size
    /\ lastWrite[c][1].content[Len(lastWrite[c][1].content)] = PAD

\* C2: a connection's request whose trimmed id is not in storedFiles is
\* written a response with success = false and the error 'File not found',
\* and the handler reads no file.
C2_UnknownId ==
  [][\A c \in Conns :
        ( /\ requestData'[c] # requestData[c]
          /\ ~RequestComplete(requestData[c])
          /\ RequestComplete(requestData'[c])
          /\ Trim(requestData'[c]) \notin DOMAIN storedFiles )
        => ( /\ writes'[c] = writes[c] + 1
             /\ Len(lastWrite'[c]) = 1
             /\ ~lastWrite'[c][1].success
             /\ lastWrite'[c][1].error = "File not found"
             /\ diskReads'[c] = diskReads[c] )]_vars

\* The request "b\n" answered not-found while another id is announced, with
\* no file read.
C2_Witness ==
  \E c \in Conns :
    /\ requestData[c] = <<"b", NL>>
    /\ <<"a">> \in DOMAIN storedFiles
    /\ <<"b">> \notin DOMAIN storedFiles
    /\ writes[c] = 1
    /\ ~lastWrite[c][1].success
    /\ lastWrite[c][1].error = "File not found"
    /\ diskReads[c] = 0

\* C3: on every connection the server writes exactly one response document:
\* at least one once the buffer holds a newline, and never two or more,
\* whatever chunks the peer sends.
C3_ExactlyOneResponse ==
  \A c \in Conns :
    /\ RequestComplete(requestData[c]) => writes[c] >= 1
    /\ writes[c] <= 1

\* A second document written on a connection the server has not ended yet.
C3_TwoResponses ==
  \E c \in Conns : writes[c] = 2 /\ lookups[c] = 2 /\ connState[c] = "open"

\* C4 (its finite part): the server ends a connection only after a response
\* was written on it, and at most one request per connection is dispatched
\* against the mapping.
C4_OneRequestPerConnection ==
  \A c \in Conns :
    /\ connState[c] = "ended" => writes[c] >= 1
    /\ lookups[c] <= 1

\* A second request dispatched, and a file read for it, after the server
\* ended its side of the connection.
C4_SecondDispatch ==
  \E c \in Conns :
    /\ connState[c] = "ended"
    /\ lookups[c] = 2
    /\ writes[c] = 1
    /\ diskReads[c] = 1

\* -------------------------------------------------------- MetadataStore

\* Number.prototype.toString / Long.toString for a non-negative integer:
\* its decimal digits.
RECURSIVE ToString(_)
ToString(n) == IF n < 10 THEN <<n>> ELSE Append(ToString(n \div 10), n % 10)

\* parseInt on a string of decimal digits.
RECURSIVE ParseInt(_)
ParseInt(s) ==
  IF s = <<>> THEN 0 ELSE ParseInt(SubSeq(s, 1, Len(s) - 1)) * 10 + s[Len(s)]

\* getAllFiles / getFileMetadata: a row of table files as the record handed
\* to the caller; file_size is turned into a string.
RowToFile(row) ==
  [fileId |-> row.file_id, filePath |-> row.file_path, fileName |-> row.file_name,
   fileSize |-> ToString(row.file_size), uploadedAt |-> row.uploaded_at]

\* Values of the store's clock.
Times == {0, 1}

\* toTimestamp(now()) at the moment an INSERT is applied: not earlier than
\* the timestamp of any row written before.
Now(rows) == { t \in Times : \A i \in 1..Len(rows) : rows[i].uploaded_at <= t }

db_getAllFiles(rows) == [i \in 1..Len(rows) |-> RowToFile(rows[i])]

db_getFileMetadata(rows, fileId) ==
  LET hit == { i \in 1..Len(rows) : rows[i].file_id = fileId }
  IN  IF hit = {} THEN <<>> ELSE <<RowToFile(rows[CHOOSE i \in hit : TRUE])>>

\* A table without a primary key: every INSERT adds a row.
db_storeAppend(rows, fileId, filePath, fileName, fileSize, now) ==
  Append(rows, [file_id |-> fileId, file_path |-> filePath,
                file_name |-> fileName, file_size |-> fileSize,
                uploaded_at |-> now])

\* storeFileMetadata: INSERT is an upsert on the primary key file_id, and
\* writes uploaded_at = toTimestamp(now()) each time.
db_storeFileMetadata(rows, fileId, filePath, fileName, fileSize, now) ==
  LET row == [file_id |-> fileId, file_path |-> filePath, file_name |-> fileName,
              file_size |-> fileSize, uploaded_at |-> now]
      hit == { i \in 1..Len(rows) : rows[i].file_id = fileId }
  IN  IF hit = {} THEN Append(rows, row)
      ELSE [i \in 1..Len(rows) |-> IF i \in hit THEN row ELSE rows[i]]

\* deleteFileMetadata: DELETE ... WHERE file_id = ?.
db_deleteFileMetadata(rows, fileId) ==
  SelectSeq(rows, LAMBDA row : row.file_id # fileId)

\* fileExists: whether the SELECT returns a row; a failed query is caught and
\* answered false.
db_fileExists(rows, fileId, queryOk) ==
  IF queryOk THEN \E i \in 1..Len(rows) : rows[i].file_id = fileId ELSE FALSE

\* ---------------------------------------------------- startup (server.js)

\* Rows the table files may hold when the process starts.
RowPool ==
  { [file_id |-> <<"a">>, file_path |-> "p1", file_name |-> TxtName, file_size |-> 12,
     uploaded_at |-> 0],
    [file_id |-> <<"b">>, file_path |-> "p2", file_name |-> BareName, file_size |-> 2,
     uploaded_at |-> 0],
    [file_id |-> <<SP>>, file_path |-> "p1", file_name |-> PdfName, file_size |-> 1,
     uploaded_at |-> 0] }

\* Longest table the model starts with.
MaxRows == 2

RECURSIVE TablesOfLen(_)
TablesOfLen(n) ==
  IF n = 0 THEN { <<>> }
  ELSE { Append(t, r) : t \in TablesOfLen(n - 1), r \in RowPool }

HasDistinctIds(t) ==
  \A i, j \in 1..Len(t) : i # j => t[i].file_id # t[j].file_id

InitialTables ==
  { t \in UNION { TablesOfLen(n) : n \in 0..MaxRows } : HasDistinctIds(t) }

\* The content each path holds when it exists at startup.
StartContent(p) == IF p = "p1" THEN <<77>> ELSE <<255, 0>>

InitialDisks == { [p \in S |-> StartContent(p)] : S \in SUBSET Paths }

\* rehydrateDHT announcing a record without its file name.
RehydrateArgsNoName(file) ==
  [fileId |-> file.fileId, filePath |-> file.filePath, fileName |-> <<>>,
   fileSize |-> ParseInt(file.fileSize)]

\* The arguments rehydrateDHT passes to announceFile for a listed record.
RehydrateArgs(file) ==
  [fileId |-> file.fileId, filePath |-> file.filePath, fileName |-> file.fileName,
   fileSize |-> ParseInt(file.fileSize)]

\* fs.existsSync
existsSync(path) == path \in DOMAIN disk

\* The loop without its fs.existsSync test: every record is announced.
NextPresentUnchecked(fs, i) == i

\* Index of the first record at or after i whose backing file exists, or
\* Len(fs) + 1: the for-loop runs synchronously up to that record's await.
RECURSIVE NextPresent(_, _)
NextPresent(fs, i) ==
  IF i > Len(fs) THEN i
  ELSE IF existsSync(fs[i].filePath) THEN i ELSE NextPresent(fs, i + 1)

MissingEntries(fs, i, j) ==
  [n \in 1..(j - i) |-> [kind |-> "missing", fileId |-> fs[i + n - 1].fileId]]

\* part_000's loop: `!file.fieldId` is true of every record, so each one is
\* skipped with the invalid-entry warning.
InvalidEntries(fs) ==
  [n \in 1..Len(fs) |-> [kind |-> "invalid", fileId |-> fs[n].fileId]]

\* What follows `await rehydrateDHT()` in server.js's startServer: app.listen.
\* In part_000 rehydrateDHT() is a separate top-level call with nothing after it.
RehydrateReturns ==
  IF variant = "server.js"
  THEN pc' = "listening" /\ listening' = TRUE
  ELSE UNCHANGED << pc, listening >>

\* server.js's for-loop from record i of fs: log the missing files, then
\* either announce the next present one and wait, or finish the pass.
RehydrateLoop(fs, i) ==
  LET j == NextPresent(fs, i)
      log == rehydrateLog \o MissingEntries(fs, i, j)
  IN  IF j <= Len(fs)
      THEN /\ AnnounceFileSync(RehydrateArgs(fs[j]))
           /\ rehydrateLog' = Append(log, [kind |-> "announce",
                                           fileId |-> fs[j].fileId,
                                           args |-> RehydrateArgs(fs[j])])
           /\ rpc' = "announce"
           /\ idx' = j
           /\ UNCHANGED << pc, listening >>
      ELSE /\ rehydrateLog' = log
           /\ rpc' = "done"
           /\ idx' = j
           /\ RehydrateReturns
           /\ UNCHANGED serviceVars

\* rehydrateDHT's catch block: log the error and return normally.
RehydrateCatch(what) ==
  /\ rehydrateLog' = Append(rehydrateLog, [kind |-> "error", fileId |-> what])
  /\ rpc' = "done"
  /\ RehydrateReturns

\* The module is loaded.  server.js calls startServer(), which issues
\* initializeDatabase.  part_000 first calls rehydrateDHT(), which issues
\* db.getAllFiles(), and then startServer().
Load ==
  /\ Running
  /\ pc = "new"
  /\ pc' = "init"
  /\ IF variant = "server.js"
     THEN /\ storeOps' = storeOps \cup {"initialize"}
          /\ UNCHANGED rpc
     ELSE /\ storeOps' = storeOps \cup {"list", "initialize"}
          /\ rpc' = "list"
  /\ UNCHANGED << serviceVars, calls, disk, connVars, variant, files, idx,
                  rehydrateLog, db, dbConnected, httpLog, listening, exitCode,
                  shutdownLog, accessLogs, client >>

\* initializeDatabase resolves.  server.js goes on to rehydrateDHT(), which
\* issues db.getAllFiles(); part_000 goes on to app.listen.
InitializeDone ==
  /\ Running
  /\ pc = "init"
  /\ dbConnected' = TRUE
  /\ IF variant = "server.js"
     THEN /\ pc' = "rehydrate"
          /\ rpc' = "list"
          /\ storeOps' = storeOps \cup {"list"}
          /\ UNCHANGED listening
     ELSE /\ pc' = "listening"
          /\ listening' = TRUE
          /\ UNCHANGED << rpc, storeOps >>
  /\ UNCHANGED << serviceVars, calls, disk, connVars, variant, files, idx,
                  rehydrateLog, db, httpLog, exitCode,
                  shutdownLog, accessLogs, client >>

\* initializeDatabase throws: startServer's catch calls process.exit(1).
InitializeFail ==
  /\ Running
  /\ pc = "init"
  /\ pc' = "failed"
  /\ exitCode' = "1"
  /\ UNCHANGED << serviceVars, calls, disk, connVars, variant, rpc, files, idx,
                  rehydrateLog, db, dbConnected, storeOps, httpLog, listening,
                  shutdownLog, accessLogs, client >>

\* db.getAllFiles() resolves inside rehydrateDHT: an empty list returns at
\* once, otherwise the loop starts.
RehydrateListDone ==
  /\ Running
  /\ rpc = "list"
  /\ files' = db_getAllFiles(db)
  /\ IF Len(files') = 0
     THEN /\ rpc' = "done"
          /\ RehydrateReturns
          /\ UNCHANGED << serviceVars, idx, rehydrateLog >>
     ELSE IF variant = "server.js"
     THEN RehydrateLoop(files', 1)
     ELSE /\ rehydrateLog' = rehydrateLog \o InvalidEntries(files')
          /\ rpc' = "done"
          /\ idx' = Len(files') + 1
          /\ RehydrateReturns
          /\ UNCHANGED serviceVars
  /\ UNCHANGED << calls, disk, connVars, variant, db, dbConnected, storeOps,
                  httpLog, exitCode,
                  shutdownLog, accessLogs, client >>

\* db.getAllFiles() throws inside rehydrateDHT.
RehydrateListFail ==
  /\ Running
  /\ rpc = "list"
  /\ RehydrateCatch("list")
  /\ UNCHANGED << serviceVars, calls, disk, connVars, variant, files, idx, db,
                  dbConnected, storeOps, httpLog, exitCode,
                  shutdownLog, accessLogs, client >>

\* The awaited announceFile of record idx returns: go on with the next record.
RehydrateAnnounceReturn ==
  /\ Running
  /\ rpc = "announce"
  /\ FlushResolved(RehydrateArgs(files[idx]))
  /\ RehydrateLoop(files, idx + 1)
  /\ UNCHANGED << calls, disk, connVars, variant, files, db, dbConnected,
                  storeOps, httpLog, exitCode,
                  shutdownLog, accessLogs, client >>

\* The awaited announceFile of record idx throws: the catch block around the
\* whole loop runs.
RehydrateAnnounceThrow ==
  /\ Running
  /\ rpc = "announce"
  /\ RehydrateCatch("announce")
  /\ UNCHANGED << serviceVars, calls, disk, connVars, variant, files, idx, db,
                  dbConnected, storeOps, httpLog, exitCode,
                  shutdownLog, accessLogs, client >>

\* ------------------------------------------- facade (FileController)

\* The retrieve handler's uuidRegex.test: the ids "a" and "b" stand for
\* well-formed UUIDv4 strings, the blank id for a malformed one.
IsUuidV4(fileId) == fileId \in { <<"a">>, <<"b">> }

\* File ids that are in use: uuidv4() returns none of them.
UsedIds ==
  { db[i].file_id : i \in 1..Len(db) } \cup DOMAIN storedFiles
    \cup { calls[k].args.fileId : k \in { x \in Callers : calls[x].st # "idle" } }

\* Ids uuidv4() may return in the model.
UploadIds == { <<"b">> }

\* What uploadFile derives from req.file and uuidv4(): a fresh id, the path
\* the middleware saved the file at, its original name and its size.
UploadArgs ==
  { [fileId |-> f, filePath |-> p, fileName |-> n, fileSize |-> Len(disk[p])] :
      f \in UploadIds \ UsedIds, p \in DOMAIN disk, n \in { TxtName } }

\* uploadFile up to `await db.storeFileMetadata(...)`.
UploadFile(k, a) ==
  /\ Running
  /\ listening
  /\ calls[k].st \in {"idle", "ok", "err"}
  /\ calls' = [calls EXCEPT ![k] = [st |-> "put", kind |-> "upload", args |-> a]]
  /\ storeOps' = storeOps \cup {"put"}
  /\ UNCHANGED << serviceVars, disk, connVars, variant, pc, rpc, files, idx,
                  rehydrateLog, db, dbConnected, httpLog, listening, exitCode,
                  shutdownLog, accessLogs, client >>

\* storeFileMetadata resolves: the row is stored and announceFile is called.
UploadPutDone(k) ==
  /\ Running
  /\ calls[k].st = "put"
  /\ LET a == calls[k].args
     IN  /\ \E now \in Now(db) :
              db' = db_storeFileMetadata(db, a.fileId, a.filePath, a.fileName,
                                         a.fileSize, now)
         /\ AnnounceFileSync(a)
  /\ calls' = [calls EXCEPT ![k].st = "flush"]
  /\ UNCHANGED << disk, connVars, startupVars, httpLog >>

\* uploadFile ignoring a failed put: the file is announced all the same.
UploadPutFailAnnounced(k) ==
  /\ Running
  /\ calls[k].st = "put"
  /\ AnnounceFileSync(calls[k].args)
  /\ calls' = [calls EXCEPT ![k].st = "flush"]
  /\ UNCHANGED << disk, connVars, startupVars, httpLog, db >>

\* storeFileMetadata throws: the handler's catch answers 500.
UploadPutFail(k) ==
  /\ Running
  /\ calls[k].st = "put"
  /\ calls' = [calls EXCEPT ![k].st = "err"]
  /\ httpLog' = <<"upload", 500>>
  /\ UNCHANGED << serviceVars, disk, connVars, startupVars, db >>

\* retrieveFile answering a missing backing file like an unknown id.
RetrieveStatusMissingAsUnknown(fileId, storeOk) ==
  IF ~IsUuidV4(fileId) THEN 400
  ELSE IF ~storeOk THEN 500
  ELSE LET fileMetadata == db_getFileMetadata(db, fileId)
       IN  IF fileMetadata = <<>> THEN 404
           ELSE IF ~existsSync(fileMetadata[1].filePath) THEN 404
           ELSE 200

\* The status retrieveFile answers with, given whether the store round trip
\* succeeded.
RetrieveStatus(fileId, storeOk) ==
  IF ~IsUuidV4(fileId) THEN 400
  ELSE IF ~storeOk THEN 500
  ELSE LET fileMetadata == db_getFileMetadata(db, fileId)
       IN  IF fileMetadata = <<>> THEN 404
           ELSE IF ~existsSync(fileMetadata[1].filePath) THEN 500
           ELSE 200

\* retrieveFile: validation, db.getFileMetadata, fs.existsSync, res.download.
RetrieveFile(fileId, storeOk) ==
  /\ Running
  /\ listening
  /\ httpLog' = <<"retrieve", RetrieveStatus(fileId, storeOk)>>
  /\ storeOps' = IF IsUuidV4(fileId) THEN storeOps \cup {"get"} ELSE storeOps
  /\ UNCHANGED << serviceVars, calls, disk, connVars, variant, pc, rpc, files, idx,
                  rehydrateLog, db, dbConnected, listening, exitCode,
                  shutdownLog, accessLogs, client >>

\* listFiles: db.getAllFiles, answered 200, or 500 when the store throws.
ListFiles(storeOk) ==
  /\ Running
  /\ listening
  /\ httpLog' = <<"files", IF storeOk THEN 200 ELSE 500>>
  /\ storeOps' = storeOps \cup {"list"}
  /\ UNCHANGED << serviceVars, calls, disk, connVars, variant, pc, rpc, files, idx,
                  rehydrateLog, db, dbConnected, listening, exitCode,
                  shutdownLog, accessLogs, client >>

\* ------------------------------------------------- node specification

\* Chunks peers send in the node-level model.
NodeChunks == { <<"a", NL>> }

\* The process starts with table t and disk d, under either entry point.
ProcessInit(t, d) ==
  /\ ServiceInit
  /\ disk = d
  /\ variant \in {"server.js", "part_000"}
  /\ pc = "new"
  /\ rpc = "new"
  /\ files = <<>>
  /\ idx = 0
  /\ rehydrateLog = <<>>
  /\ db = t
  /\ dbConnected = FALSE
  /\ storeOps = {}
  /\ httpLog = <<>>
  /\ listening = FALSE
  /\ exitCode = "none"
  /\ shutdownLog = <<>>
  /\ accessLogs = <<>>
  /\ client = IdleClient

\* Startup: any initial table and any initial disk.
InitStartup == \E t \in InitialTables, d \in InitialDisks : ProcessInit(t, d)

\* Startup alone: from the load of the module to the call of app.listen.
NextStartup ==
  \/ Load
  \/ InitializeDone
  \/ InitializeFail
  \/ RehydrateListDone
  \/ RehydrateListFail
  \/ RehydrateAnnounceReturn
  \/ RehydrateAnnounceThrow
  \/ \E t \in Topics : JoinPropagate(t)

SpecStartup == InitStartup /\ [][NextStartup]_vars

\* The whole node: every backing file present at first, at most one row.
InitNode ==
  \E t \in { x \in InitialTables : Len(x) <= 1 } :
    ProcessInit(t, [p \in Paths |-> StartContent(p)])

NextNode ==
  \/ Load
  \/ InitializeDone
  \/ InitializeFail
  \/ RehydrateListDone
  \/ RehydrateListFail
  \/ RehydrateAnnounceReturn
  \/ RehydrateAnnounceThrow
  \/ \E t \in Topics : JoinPropagate(t)
  \/ \E a \in UploadArgs : UploadFile(PeerCaller, a)
  \/ UploadPutDone(PeerCaller)
  \/ UploadPutFail(PeerCaller)
  \/ AnnounceReturn(PeerCaller)
  \/ AnnounceThrow(PeerCaller)
  \/ \E f \in FileIds, ok \in BOOLEAN : RetrieveFile(f, ok)
  \/ \E ok \in BOOLEAN : ListFiles(ok)
  \/ Connect(PeerConn)
  \/ \E d \in NodeChunks : Data(PeerConn, d)
  \/ TimerEnd(PeerConn)
  \/ PeerClose(PeerConn)
  \/ \E code \in {"ECONNRESET", "EPIPE"} : ConnError(PeerConn, code)
  \/ \E p \in Paths : RemoveFile(p)

SpecNode == InitNode /\ [][NextNode]_vars

\* ------------------------------------------------------------- startup

\* The entries of the rehydration log of the given kinds, in order.
LogOfKind(kinds) == SelectSeq(rehydrateLog, LAMBDA e : e.kind \in kinds)

\* The persisted rows whose backing file exists on disk, in listing order.
PresentRows == SelectSeq(db, LAMBDA r : r.file_path \in DOMAIN disk)

\* The announceFile arguments a persisted row calls for.
RowArgs(r) ==
  [fileId |-> r.file_id, filePath |-> r.file_path, fileName |-> r.file_name,
   fileSize |-> r.file_size]

\* C5: when the rehydration pass has returned without a listing or announce
\* error, it has issued one announceFile call per persisted record whose file
\* is present, with that record's fields, none for the others, one warning
\* per other record, and startServer is not left waiting for it.
C5_Rehydration ==
  (rpc = "done" /\ LogOfKind({"error"}) = <<>>) =>
    /\ Len(LogOfKind({"announce"})) = Len(PresentRows)
    /\ \A n \in 1..Len(PresentRows) :
         n <= Len(LogOfKind({"announce"})) =>
           LogOfKind({"announce"})[n].args = RowArgs(PresentRows[n])
    /\ Len(LogOfKind({"missing", "invalid"})) = Len(db) - Len(PresentRows)
    /\ pc # "rehydrate"

\* The pass has returned, a record's file is on disk, and no announceFile
\* call was issued: the record was skipped as invalid.
C5_ValidRecordSkipped ==
  /\ rpc = "done"
  /\ PresentRows # <<>>
  /\ LogOfKind({"announce", "error"}) = <<>>
  /\ LogOfKind({"invalid"}) # <<>>
  /\ storedFiles = EmptyMap

\* C6: when the rehydration pass has returned after an announceFile call
\* threw, every record of the list was still processed: announced, or
\* reported missing.
C6_FailureIsolation ==
  (rpc = "done" /\ \E n \in 1..Len(rehydrateLog) :
                     rehydrateLog[n] = [kind |-> "error", fileId |-> "announce"]) =>
    \A i \in 1..Len(files) :
      \E n \in 1..Len(rehydrateLog) :
        /\ rehydrateLog[n].kind \in {"announce", "missing"}
        /\ rehydrateLog[n].fileId = files[i].fileId

\* The pass has returned after the first record's announce threw, and the
\* second record, whose file is on disk, was never announced.
C6_RemainingSkipped ==
  /\ rpc = "done"
  /\ Len(files) = 2
  /\ idx = 1
  /\ existsSync(files[2].filePath)
  /\ files[2].fileId \notin DOMAIN storedFiles
  /\ rehydrateLog[Len(rehydrateLog)] = [kind |-> "error", fileId |-> "announce"]

\* C7: rehydration starts only after initializeDatabase has succeeded, and
\* the HTTP server listens only after rehydration has returned.
C7_StartupOrdering ==
  /\ rpc # "new" => dbConnected
  /\ listening => rpc = "done"

\* The HTTP server listening while rehydration is still waiting for its
\* listing.
C7_ListeningBeforeRehydrated == listening /\ rpc = "list"

\* C8: once initializeDatabase has failed the process has exited with status
\* 1, no list, put or get round trip was issued, rehydration never started
\* and the HTTP server is not listening.
C8_InitFailureFatal ==
  pc = "failed" =>
    /\ exitCode = "1"
    /\ storeOps \cap {"list", "put", "get"} = {}
    /\ rpc = "new"
    /\ ~listening

\* initializeDatabase failed after the listing round trip had been issued,
\* and rehydration has run.
C8_ListBeforeInit ==
  /\ pc = "failed"
  /\ ~dbConnected
  /\ "list" \in storeOps
  /\ rpc = "done"

\* C9: the process exits only when initializeDatabase fails; once the node
\* listens it keeps running and listening, whatever fails afterwards.
C9_OnlyInitFailureFatal ==
  /\ exitCode # "none" => (exitCode = "1" /\ pc = "failed")
  /\ pc = "listening" => (Running /\ listening)

\* After an announce failure during rehydration, a failed upload, a failed
\* file read in a peer request and a peer connection error, the node is
\* running and has just served a download.
C9_Witness ==
  /\ Running
  /\ listening
  /\ \E n \in 1..Len(rehydrateLog) : rehydrateLog[n].kind = "error"
  /\ calls[PeerCaller].st = "err"
  /\ errorLog # {}
  /\ Len(lastWrite[PeerConn]) = 1
  /\ ~lastWrite[PeerConn][1].success
  /\ lastWrite[PeerConn][1].error = "Failed to read file"
  /\ httpLog = <<"retrieve", 200>>

\* C10: a caller holds announceFile's result only when the join of the
\* file's topic has been propagated, never while it is still pending.
C10_ReturnAfterFlush ==
  \A k \in Callers :
    calls[k].st = "ok" =>
      /\ calls[k].result = AnnounceResult(calls[k].args)
      /\ joinState[Topic(calls[k].args.fileId)] = "flushed"

\* One caller holds its result while another still waits for the flush of a
\* pending join.
C10_Witness ==
  \E k, j \in Callers :
    /\ calls[k].st = "ok"
    /\ calls[k].result.topic = Topic(calls[k].args.fileId)
    /\ calls[j].st = "flush"
    /\ joinState[Topic(calls[j].args.fileId)] = "pending"

\* ------------------------------------------------------- shutdown

\* The events of shutdownLog, in the order the SIGINT handler produces them.
Logged(e) == \E i \in 1..Len(shutdownLog) : shutdownLog[i] = e

LastLogged == IF shutdownLog = <<>> THEN "none" ELSE shutdownLog[Len(shutdownLog)]

\* SIGINT is delivered (once) after the module has registered its handler
\* at the end of its load.  server.js closes the HTTP server if
\* global.serverInstance is set and, in either case, calls
\* dhtService.shutdown().  part_000 holds the whole body inside
\* if(global.serverInstance): without a server the handler returns.
Sigint ==
  /\ Running
  /\ pc # "new"
  /\ shutdownLog = <<>>
  /\ IF listening
     THEN /\ shutdownLog' = <<"sigint", "http.close", "dht.begin">>
          /\ listening' = FALSE
     ELSE /\ shutdownLog' = IF variant = "server.js"
                            THEN <<"sigint", "dht.begin">>
                            ELSE <<"sigint", "returned">>
          /\ UNCHANGED listening
  /\ UNCHANGED << serviceVars, calls, disk, connVars, variant, pc, rpc, files, idx,
                  rehydrateLog, db, dbConnected, storeOps, httpLog, exitCode, accessLogs, client >>

\* swarm.destroy() resolves: the handler goes on to db.shutdown(), which
\* calls client.shutdown().
DhtShutdownDone ==
  /\ Running
  /\ LastLogged = "dht.begin"
  /\ shutdownLog' = shutdownLog \o <<"dht.end", "store.begin">>
  /\ UNCHANGED << serviceVars, calls, disk, connVars, variant, pc, rpc, files, idx,
                  rehydrateLog, db, dbConnected, storeOps, httpLog, listening,
                  exitCode, accessLogs, client >>

\* swarm.destroy() rejects: the async handler rejects, and the
\* unhandledRejection handler calls process.exit(1).
DhtShutdownFail ==
  /\ Running
  /\ LastLogged = "dht.begin"
  /\ shutdownLog' = Append(shutdownLog, "dht.fail")
  /\ exitCode' = "1"
  /\ UNCHANGED << serviceVars, calls, disk, connVars, variant, pc, rpc, files, idx,
                  rehydrateLog, db, dbConnected, storeOps, httpLog, listening, accessLogs, client >>

\* client.shutdown() settles: db.shutdown() catches a failure, so the handler
\* calls process.exit(0) either way.
StoreShutdownDone(ok) ==
  /\ Running
  /\ LastLogged = "store.begin"
  /\ shutdownLog' = Append(shutdownLog, IF ok THEN "store.end" ELSE "store.fail")
  /\ dbConnected' = FALSE
  /\ exitCode' = "0"
  /\ UNCHANGED << serviceVars, calls, disk, connVars, variant, pc, rpc, files, idx,
                  rehydrateLog, db, storeOps, httpLog, listening, accessLogs, client >>

\* Startup and shutdown together: the signal may arrive in any state.
NextShutdown ==
  \/ Load
  \/ InitializeDone
  \/ InitializeFail
  \/ RehydrateListDone
  \/ RehydrateListFail
  \/ RehydrateAnnounceReturn
  \/ RehydrateAnnounceThrow
  \/ \E t \in Topics : JoinPropagate(t)
  \/ Sigint
  \/ DhtShutdownDone
  \/ DhtShutdownFail
  \/ \E ok \in BOOLEAN : StoreShutdownDone(ok)

SpecShutdown == InitStartup /\ [][NextShutdown]_vars

\* ------------------------------------------------- MetadataStore clients

\* Clients of db.js that have one operation each in flight at a time.
StoreCallers == {1, 2}

\* Records the clients put: two versions of one id, sizes of one, two and
\* three digits and of zero.
StoreArgs ==
  { [fileId |-> <<"a">>, filePath |-> "p1", fileName |-> TxtName, fileSize |-> 0],
    [fileId |-> <<"a">>, filePath |-> "p2", fileName |-> PdfName, fileSize |-> 120],
    [fileId |-> <<"b">>, filePath |-> "p2", fileName |-> BareName, fileSize |-> 7] }

\* storeFileMetadata is called: the INSERT is sent.
StoreFileMetadata(k, a) ==
  /\ Running
  /\ calls[k].st \in {"idle", "ok", "err"}
  /\ calls' = [calls EXCEPT ![k] = [st |-> "insert", kind |-> "db", args |-> a]]
  /\ storeOps' = storeOps \cup {"put"}
  /\ UNCHANGED << serviceVars, disk, connVars, variant, pc, rpc, files, idx,
                  rehydrateLog, db, dbConnected, httpLog, listening, exitCode,
                  shutdownLog, accessLogs, client >>

\* The INSERT is applied and storeFileMetadata returns true.
StoreFileMetadataDone(k) ==
  /\ Running
  /\ calls[k].st = "insert"
  /\ LET a == calls[k].args
     IN  \E now \in Now(db) :
           db' = db_storeFileMetadata(db, a.fileId, a.filePath, a.fileName,
                                      a.fileSize, now)
  /\ calls' = [calls EXCEPT ![k].st = "ok"]
  /\ UNCHANGED << serviceVars, disk, connVars, startupVars, httpLog >>

\* deleteFileMetadata is called: the DELETE is sent.
DeleteFileMetadata(k, fileId) ==
  /\ Running
  /\ calls[k].st \in {"idle", "ok", "err"}
  /\ calls' = [calls EXCEPT ![k] = [st |-> "delete", kind |-> "db",
                                    args |-> [fileId |-> fileId]]]
  /\ storeOps' = storeOps \cup {"delete"}
  /\ UNCHANGED << serviceVars, disk, connVars, variant, pc, rpc, files, idx,
                  rehydrateLog, db, dbConnected, httpLog, listening, exitCode,
                  shutdownLog, accessLogs, client >>

\* A delete that also drops the node's local mapping for the id.
DeleteFileMetadataCascade(k) ==
  /\ Running
  /\ calls[k].st = "delete"
  /\ db' = db_deleteFileMetadata(db, calls[k].args.fileId)
  /\ storedFiles' = MapDelete(storedFiles, calls[k].args.fileId)
  /\ fileIdToPath' = MapDelete(fileIdToPath, calls[k].args.fileId)
  /\ calls' = [calls EXCEPT ![k].st = "ok"]
  /\ UNCHANGED << joinState, disk, connVars, startupVars, httpLog >>

\* The DELETE is applied and deleteFileMetadata returns true.
DeleteFileMetadataDone(k) ==
  /\ Running
  /\ calls[k].st = "delete"
  /\ db' = db_deleteFileMetadata(db, calls[k].args.fileId)
  /\ calls' = [calls EXCEPT ![k].st = "ok"]
  /\ UNCHANGED << serviceVars, disk, connVars, startupVars, httpLog >>

\* client.execute rejects: storeFileMetadata / deleteFileMetadata log and
\* rethrow, the table is as it was.
StoreExecuteFail(k) ==
  /\ Running
  /\ calls[k].st \in {"insert", "delete"}
  /\ calls' = [calls EXCEPT ![k].st = "err"]
  /\ UNCHANGED << serviceVars, disk, connVars, startupVars, db, httpLog >>

\* fileExists(fileId) is called and answers.
FileExists(fileId, queryOk) ==
  /\ Running
  /\ httpLog' = <<"fileExists", fileId, db_fileExists(db, fileId, queryOk)>>
  /\ UNCHANGED << serviceVars, calls, disk, connVars, startupVars, db >>

\* The table any run of the store clients starts from.
InitStore == \E t \in InitialTables : ServingInit(t, EmptyMap)

NextStore ==
  \/ \E k \in StoreCallers, a \in StoreArgs : StoreFileMetadata(k, a)
  \/ \E k \in StoreCallers : StoreFileMetadataDone(k)
  \/ \E k \in StoreCallers, f \in FileIds : DeleteFileMetadata(k, f)
  \/ \E k \in StoreCallers : DeleteFileMetadataDone(k)
  \/ \E k \in StoreCallers : StoreExecuteFail(k)
  \/ \E f \in FileIds, ok \in BOOLEAN : FileExists(f, ok)

SpecStore == InitStore /\ [][NextStore]_vars

\* ------------------------------------------ concurrent connections

\* What the model of concurrent connections announces and sends: one file,
\* whose id is requested, left incomplete or preceded by a newline.
ConnsArgs == { a \in AnnounceArgs : a.fileId = <<"a">> /\ a.filePath = "p1" }

ConnsChunks == { <<"a">>, <<NL>>, <<"a", NL>> }

\* Every connection of Conns is driven: connects, data, timers, closes and
\* errors interleave freely, while the file is announced, removed and
\* written back.
NextConns ==
  \/ \E a \in ConnsArgs : AnnounceFile(PeerCaller, a)
  \/ \E c \in Conns : Connect(c)
  \/ \E c \in Conns, d \in ConnsChunks : Data(c, d)
  \/ \E c \in Conns : TimerEnd(c)
  \/ \E c \in Conns : PeerClose(c)
  \/ \E c \in Conns : ConnError(c, "EPIPE")
  \/ WriteFile("p1", StartContent("p1"))
  \/ RemoveFile("p1")

SpecConns == Init /\ [][NextConns]_vars

\* ------------------------------------------- delete on a serving node

\* The client that deletes records while the node serves peers.
DeleteCaller == 2

\* A serving node with persisted records and the backing file of p1 on disk;
\* the node announces, a client of db.js deletes records, a peer asks.
InitDelete ==
  \E t \in InitialTables : ServingInit(t, [p \in {"p1"} |-> StartContent(p)])

NextDelete ==
  \/ \E a \in ConnsArgs : AnnounceFile(PeerCaller, a)
  \/ AnnounceReturn(PeerCaller)
  \/ \E t \in Topics : JoinPropagate(t)
  \/ \E f \in FileIds : DeleteFileMetadata(DeleteCaller, f)
  \/ DeleteFileMetadataDone(DeleteCaller)
  \/ StoreExecuteFail(DeleteCaller)
  \/ Connect(PeerConn)
  \/ \E d \in ConnsChunks : Data(PeerConn, d)
  \/ TimerEnd(PeerConn)
  \/ PeerClose(PeerConn)

SpecDelete == InitDelete /\ [][NextDelete]_vars

\* ------------------------------------------------------------ MIME types

\* Extensions, without their dot, that names are built from: the twelve of
\* the table and some that are not in it (one is empty, one is a table entry
\* cut short, one a table entry with a letter more).
TableExts ==
  { <<"t", "x", "t">>, <<"p", "d", "f">>, <<"j", "p", "g">>, <<"j", "p", "e", "g">>,
    <<"p", "n", "g">>, <<"g", "i", "f">>, <<"j", "s", "o", "n">>, <<"z", "i", "p">>,
    <<"d", "o", "c">>, <<"d", "o", "c", "x">>, <<"m", "p", "4">>, <<"m", "p", "3">> }

OtherExts == { <<>>, <<"e", "x", "e">>, <<"t", "x">>, <<"p", "d", "f", "x">> }

\* What precedes the last dot of a name: nothing (a dot file), a plain stem
\* and a stem that has a dot and a table extension of its own.
Stems == { <<>>, <<"a">>, <<"a", ".", "t", "x", "t">> }

\* String.prototype.toUpperCase on one ASCII character.
UpperChar(ch) ==
  LET hit == { i \in 1..Len(LowerLetters) : LowerLetters[i] = ch }
  IN  IF hit = {} THEN ch ELSE UpperLetters[CHOOSE i \in hit : TRUE]

\* The ways an extension is written: lower case, upper case, first letter
\* in upper case.
Cased(e, how) ==
  CASE how = "lower" -> e
    [] how = "upper" -> [i \in 1..Len(e) |-> UpperChar(e[i])]
    [] OTHER -> [i \in 1..Len(e) |-> IF i = 1 THEN UpperChar(e[i]) ELSE e[i]]

Casings == {"lower", "upper", "mixed"}

\* A caller asks for the MIME type of a name.
GetMimeType(fileName) ==
  /\ httpLog' = <<"getMimeType", fileName, getMimeType(fileName)>>
  /\ UNCHANGED << serviceVars, calls, disk, connVars, startupVars, db >>

\* Names with a dot before the extension, and names that are the bare
\* extension letters with no dot at all.
NextMime ==
  \/ \E stem \in Stems, e \in TableExts \cup OtherExts, how \in Casings :
       GetMimeType(stem \o <<".">> \o Cased(e, how))
  \/ \E e \in TableExts, how \in Casings : GetMimeType(Cased(e, how))

SpecMime == Init /\ [][NextMime]_vars

\* ------------------------------------------------------ client lookups

\* Everything but the client: the serving node's state.
nodeVars ==
  << serviceVars, calls, disk, connVars, variant, pc, rpc, files, idx, rehydrateLog,
     db, dbConnected, storeOps, httpLog, listening, exitCode, shutdownLog,
     accessLogs >>

\* resolve(...) or reject(...) is called with outcome v: the first call
\* settles the promise, later calls change nothing.
Settle(cl, v) ==
  [cl EXCEPT !.promise = IF @ = "pending" THEN v ELSE @, !.settles = @ + 1]

\* A lookup that derives its topic from the bytes of the request line instead
\* of the fileId.
LookupTopicOfRequest(kind, fileId) ==
  /\ client.kind = "none"
  /\ client' = [client EXCEPT !.kind = kind, !.fileId = fileId,
                              !.topic = Topic(Append(fileId, NL)), !.joins = @ + 1,
                              !.timer = "armed", !.promise = "pending"]
  /\ UNCHANGED nodeVars

\* A call of findAndDownload ("download") or publishFileLocation ("publish"):
\* the topic is derived, the swarm is joined as a client, the promise is
\* created, its timer armed and a once('connection') listener registered.
Lookup(kind, fileId) ==
  /\ client.kind = "none"
  /\ client' = [client EXCEPT !.kind = kind, !.fileId = fileId,
                              !.topic = Topic(fileId), !.joins = @ + 1,
                              !.timer = "armed", !.promise = "pending"]
  /\ UNCHANGED nodeVars

\* The timer of the lookup fires: reject(new Error('Timeout: ...')).
LookupTimeout ==
  /\ client.timer = "armed"
  /\ client' = Settle([client EXCEPT !.timer = "fired"], "timeout")
  /\ UNCHANGED nodeVars

\* The once('connection') listener runs on the first connection of the
\* swarm: clearTimeout, then findAndDownload writes its request, while
\* publishFileLocation ends the connection and resolves.
LookupConnection ==
  /\ client.kind # "none"
  /\ client.conn = "none"
  /\ LET cleared == [client EXCEPT !.timer = IF @ = "armed" THEN "cleared" ELSE @]
     IN  client' =
           IF client.kind = "download"
           THEN [cleared EXCEPT !.conn = "open",
                                !.sent = Append(client.fileId, NL)]
           ELSE Settle([cleared EXCEPT !.conn = "ended"], "resolved")
  /\ UNCHANGED nodeVars

\* conn.on('end') of findAndDownload: the accumulated data is parsed.  A
\* document that does not parse, or a save that throws, rejects from the
\* catch block; a document with an error field rejects; otherwise the file
\* is written and the promise resolved.
LookupEnd(response) ==
  /\ client.kind = "download"
  /\ client.conn = "open"
  /\ LET ended == [client EXCEPT !.conn = "ended"]
     IN  client' =
           CASE response = "unparsable" -> Settle(ended, "parse-error")
             [] response = "error" -> Settle(ended, "response-error")
             [] OTHER -> Settle([ended EXCEPT !.saved = @ + 1], "resolved")
  /\ UNCHANGED nodeVars

\* conn.on('error') of findAndDownload: rejects unless the code is
\* ECONNRESET.
LookupConnError(code) ==
  /\ client.kind = "download"
  /\ client.conn = "open"
  /\ client' = IF code # "ECONNRESET"
               THEN Settle([client EXCEPT !.conn = "failed"], "conn-error")
               ELSE [client EXCEPT !.conn = "failed"]
  /\ UNCHANGED nodeVars

\* A client beside a node that announces: the two derive their topics
\* independently.
NextClient ==
  \/ \E kind \in {"download", "publish"}, f \in FileIds : Lookup(kind, f)
  \/ LookupTimeout
  \/ LookupConnection
  \/ \E r \in {"file", "error", "unparsable"} : LookupEnd(r)
  \/ \E code \in {"ECONNRESET", "EPIPE"} : LookupConnError(code)
  \/ \E a \in AnnounceArgs : AnnounceFile(PeerCaller, a)
  \/ AnnounceReturn(PeerCaller)
  \/ \E t \in Topics : JoinPropagate(t)

SpecClient == Init /\ [][NextClient]_vars

\* ---------------------------------------------------------- access log

\* Most rows the model appends to access_logs.
MaxLog == 2

\* The rows of a log that are about fileId.
EntriesOf(log, fileId) == SelectSeq(log, LAMBDA e : e.fileId = fileId)

\* logAccess letting the failure of its INSERT reach no handler.
LogAccessRethrow(fileId, clientId, operationType, insertOk) ==
  /\ Running
  /\ Len(accessLogs) < MaxLog
  /\ IF insertOk
     THEN /\ accessLogs' = Append(accessLogs,
                                  [logId |-> Len(accessLogs) + 1, fileId |-> fileId,
                                   clientId |-> clientId,
                                   operationType |-> operationType])
          /\ httpLog' = <<"logAccess", TRUE>>
          /\ UNCHANGED exitCode
     ELSE /\ exitCode' = "1"
          /\ UNCHANGED << accessLogs, httpLog >>
  /\ UNCHANGED << serviceVars, calls, disk, connVars, variant, pc, rpc, files, idx,
                  rehydrateLog, db, dbConnected, storeOps, listening, shutdownLog, client >>

\* logAccess(fileId, clientId, operationType): one INSERT into access_logs
\* under a fresh log_id = now(); true when it is applied, false, from the
\* catch block, when it fails.
LogAccess(fileId, clientId, operationType, insertOk) ==
  /\ Running
  /\ Len(accessLogs) < MaxLog
  /\ accessLogs' =
       IF insertOk
       THEN Append(accessLogs,
                   [logId |-> Len(accessLogs) + 1, fileId |-> fileId,
                    clientId |-> clientId, operationType |-> operationType])
       ELSE accessLogs
  /\ httpLog' = <<"logAccess", insertOk>>
  /\ UNCHANGED << serviceVars, calls, disk, connVars, variant, pc, rpc, files, idx,
                  rehydrateLog, db, dbConnected, storeOps, listening, exitCode,
                  shutdownLog, client >>

\* The facade and the clients of db.js on a serving node: retrievals,
\* listings, deletes and direct calls of logAccess.
NextAccess ==
  \/ \E f \in FileIds, ok \in BOOLEAN : RetrieveFile(f, ok)
  \/ \E ok \in BOOLEAN : ListFiles(ok)
  \/ \E f \in FileIds, ok \in BOOLEAN : LogAccess(f, "client", "download", ok)
  \/ \E f \in FileIds : DeleteFileMetadata(DeleteCaller, f)
  \/ DeleteFileMetadataDone(DeleteCaller)
  \/ StoreExecuteFail(DeleteCaller)

SpecAccess == InitDelete /\ [][NextAccess]_vars

\* ------------------------------------------------------------ C11..C20

\* C11: every announceFile call, first or repeated, leaves the mapping with
\* the entry of its fileId holding the call's filePath, fileName and size,
\* the entries of all other fileIds unchanged and no other key added; a
\* repeated call is not refused.
C11_AnnounceIdempotent ==
  [][\A k \in Callers :
        (calls[k].st # "flush" /\ calls'[k].st = "flush") =>
          LET a == calls'[k].args
          IN  /\ DOMAIN storedFiles' = DOMAIN storedFiles \cup {a.fileId}
              /\ storedFiles'[a.fileId].filePath = a.filePath
              /\ storedFiles'[a.fileId].fileName = a.fileName
              /\ storedFiles'[a.fileId].size = a.fileSize
              /\ \A g \in DOMAIN storedFiles \ {a.fileId} :
                   storedFiles'[g] = storedFiles[g]
              /\ DOMAIN fileIdToPath' = DOMAIN storedFiles'
              /\ \A g \in DOMAIN fileIdToPath' :
                   fileIdToPath'[g] = storedFiles'[g].filePath]_vars

\* Two announces of the id "a" with different paths have both returned
\* their result, another id is announced too, and the mapping holds the
\* second caller's entry for "a".
C11_Witness ==
  /\ calls[1].st = "ok"
  /\ calls[2].st = "ok"
  /\ calls[1].args.fileId = <<"a">>
  /\ calls[2].args.fileId = <<"a">>
  /\ calls[1].args.filePath = "p1"
  /\ calls[2].args.filePath = "p2"
  /\ storedFiles[<<"a">>].filePath = "p2"
  /\ storedFiles[<<"a">>].size = calls[2].args.fileSize
  /\ <<"b">> \in DOMAIN storedFiles

\* Connection c's first complete request is dispatched by this step.
Dispatches(c) ==
  /\ requestData'[c] # requestData[c]
  /\ ~RequestComplete(requestData[c])
  /\ RequestComplete(requestData'[c])

\* This step leaves every connection other than c as it was.
OthersUntouched(c) ==
  \A o \in Conns \ {c} :
    /\ connState'[o] = connState[o]
    /\ requestData'[o] = requestData[o]
    /\ writes'[o] = writes[o]
    /\ lastWrite'[o] = lastWrite[o]
    /\ timers'[o] = timers[o]

\* C12: when a connection's request names an id of the mapping whose file
\* cannot be read, the step writes one response with success = false and the
\* error 'Failed to read file', schedules the connection's end as for any
\* response, leaves the process running and every other connection as it was.
C12_ReadFailure ==
  [][\A c \in Conns :
        ( /\ Dispatches(c)
          /\ Trim(requestData'[c]) \in DOMAIN storedFiles
          /\ storedFiles[Trim(requestData'[c])].filePath \notin DOMAIN disk )
        => ( /\ writes'[c] = writes[c] + 1
             /\ Len(lastWrite'[c]) = 1
             /\ ~lastWrite'[c][1].success
             /\ lastWrite'[c][1].error = "Failed to read file"
             /\ timers'[c] = timers[c] + 1
             /\ exitCode' = "none"
             /\ OthersUntouched(c) )]_vars

\* Connection 1 was answered the read failure and ended by the server; the
\* file was written back and connection 2, opened meanwhile, was then served
\* the file.
C12_Witness ==
  /\ Running
  /\ connState[1] = "ended"
  /\ writes[1] = 1
  /\ ~lastWrite[1][1].success
  /\ lastWrite[1][1].error = "Failed to read file"
  /\ diskReads[1] = 1
  /\ writes[2] = 1
  /\ lastWrite[2][1].success

\* On the peer protocol, this step answers an unknown id with 'File not
\* found' and a known id whose file is missing with 'Failed to read file',
\* keeping the mapping entry.
PeerFailuresDiffer ==
  \A c \in Conns :
    Dispatches(c) =>
      LET id == Trim(requestData'[c])
      IN  /\ id \notin DOMAIN storedFiles =>
               /\ ~lastWrite'[c][1].success
               /\ lastWrite'[c][1].error = "File not found"
          /\ (id \in DOMAIN storedFiles /\ ~existsSync(storedFiles[id].filePath)) =>
               /\ ~lastWrite'[c][1].success
               /\ lastWrite'[c][1].error = "Failed to read file"
               /\ storedFiles' = storedFiles
               /\ fileIdToPath' = fileIdToPath

\* On the facade, a retrieve of f whose store round trip succeeds answers
\* 404 when f has no record and 500 when its record's file is missing,
\* keeping the record.
FacadeFailuresDiffer(f) ==
  RetrieveFile(f, TRUE) =>
    LET fileMetadata == db_getFileMetadata(db, f)
    IN  /\ fileMetadata = <<>> => httpLog' = <<"retrieve", 404>>
        /\ (fileMetadata # <<>> /\ ~existsSync(fileMetadata[1].filePath)) =>
             /\ httpLog' = <<"retrieve", 500>>
             /\ db' = db

\* C13 (as amended): an unknown id and a known id whose backing file is
\* missing are answered differently and the entry is kept: 'File not found'
\* against 'Failed to read file' on the peer protocol, and, for an id that is
\* a well-formed UUIDv4, 404 against 500 on the facade retrieve.
C13_DistinguishableFailures ==
  [][ /\ PeerFailuresDiffer
      /\ \A f \in { x \in FileIds : IsUuidV4(x) } : FacadeFailuresDiffer(f) ]_vars

\* C13 as stated: the same for every id, well-formed or not.
C13_DistinguishableAnyId ==
  [][ /\ PeerFailuresDiffer
      /\ \A f \in FileIds : FacadeFailuresDiffer(f) ]_vars

\* The id "a" is in the mapping and in the store, its file is gone, the
\* peer was answered the read failure and the facade 500, and both entries
\* are still there.
C13_Witness ==
  /\ <<"a">> \in DOMAIN storedFiles
  /\ db_getFileMetadata(db, <<"a">>) # <<>>
  /\ ~existsSync(storedFiles[<<"a">>].filePath)
  /\ writes[PeerConn] = 1
  /\ ~lastWrite[PeerConn][1].success
  /\ lastWrite[PeerConn][1].error = "Failed to read file"
  /\ httpLog = <<"retrieve", 500>>

\* A cap on the buffered request: any size below the longest request the
\* model lets a peer send.
RequestCap == MaxReq - 1

\* C14: the request buffer of a connection never grows beyond the cap (the
\* server closes the connection instead of buffering more).
C14_BufferCapped ==
  \A c \in Conns :
    Len(requestData[c]) <= RequestCap

\* A buffer beyond the cap with no newline in it, on a connection the server
\* has neither answered nor scheduled to end.
C14_Oversized ==
  \E c \in Conns :
    /\ Len(requestData[c]) > RequestCap
    /\ ~RequestComplete(requestData[c])
    /\ connState[c] = "open"
    /\ writes[c] = 0
    /\ timers[c] = 0

\* The text that precedes the first newline of s.
FirstLine(s) ==
  LET k == CHOOSE i \in 1..Len(s) : s[i] = NL /\ \A j \in 1..(i - 1) : s[j] # NL
  IN  SubSeq(s, 1, k - 1)

\* C15: the response written when a connection's request is dispatched is
\* the response for the trimmed text that precedes the first newline of the
\* accumulated bytes, whatever follows that newline in the same chunk.
C15_LookupKey ==
  [][\A c \in Conns :
        Dispatches(c) =>
          lastWrite'[c] = <<Respond(Append(FirstLine(requestData'[c]), NL))>>]_vars

\* One chunk holding a newline followed by "a": the text before the newline
\* is empty, and the single dispatch served the file announced as "a".
C15_TrailingBytesLookedUp ==
  \E c \in Conns :
    /\ requestData[c] = <<NL, "a">>
    /\ lookups[c] = 1
    /\ writes[c] = 1
    /\ lastWrite[c][1].success
    /\ lastWrite[c][1].fileId = <<"a">>

\* This step changes connection c's buffer only by appending a chunk to it,
\* and then no other connection's buffer, state, response or timer.
OwnDataOnly(c) ==
  requestData'[c] # requestData[c] =>
    /\ \E d \in ConnsChunks : requestData'[c] = requestData[c] \o d
    /\ OthersUntouched(c)

\* A document this step writes on c is the response for c's own buffer and
\* the mapping and disk of this moment.
OwnResponse(c) ==
  writes'[c] # writes[c] =>
    /\ requestData'[c] # requestData[c]
    /\ lastWrite'[c] = <<Respond(requestData'[c])>>

\* Whatever the other connections are doing, an open connection with room in
\* its buffer can deliver the newline that completes its request.
NeverBlocked(c) ==
  (connState[c] = "open" /\ Len(requestData[c]) + 1 <= MaxReq)
    => ENABLED Data(c, <<NL>>)

\* The step that completes c's request writes c's response.
AnsweredAtOnce(c) == Dispatches(c) => writes'[c] = writes[c] + 1

\* C16: connections are independent: a connection's buffer is changed only
\* by its own data events, its response depends only on its own bytes and on
\* the mapping (and disk) at dispatch, and no state of another connection
\* (stalled without a newline, failed, closed) keeps it from being answered.
C16_Independent ==
  /\ [](\A c \in Conns : NeverBlocked(c))
  /\ [][\A c \in Conns : OwnDataOnly(c) /\ OwnResponse(c) /\ AnsweredAtOnce(c)]_vars

\* Connection 1 has stalled on an incomplete request, and connection 2 has
\* been served the file, ended by the server and then failed.
C16_Witness ==
  /\ connState[1] = "open"
  /\ requestData[1] = <<"a">>
  /\ writes[1] = 0
  /\ requestData[2] = <<"a", NL>>
  /\ writes[2] = 1
  /\ lastWrite[2][1].success
  /\ connState[2] = "closed"
  /\ <<2, "EPIPE">> \in errorLog

\* C17: shutdown is sequential.  Once the DHT leave has begun the HTTP server
\* is not accepting requests, the store close begins only after the DHT leave
\* has finished, and the DHT leave begins before it finishes.
C17_ShutdownSequential ==
  /\ Logged("dht.begin") => ~listening
  /\ \A i \in 1..Len(shutdownLog) :
       shutdownLog[i] = "store.begin" =>
         \E j \in 1..(i - 1) : shutdownLog[j] = "dht.end"
  /\ \A i \in 1..Len(shutdownLog) :
       shutdownLog[i] = "dht.end" =>
         \E j \in 1..(i - 1) : shutdownLog[j] = "dht.begin"

\* The signal arrived during startup: the DHT leave is under way (or done) and
\* the process, still running, has called app.listen since.
C17_AcceptingWhileLeaving ==
  /\ Running
  /\ Logged("dht.begin")
  /\ listening
  /\ pc = "listening"

\* C18: after a shutdown signal the process exits.  Finite form: when the
\* SIGINT handler has run to its end, process.exit has been called.
C18_SignalLeadsToExit ==
  LastLogged \in {"returned", "store.end", "store.fail", "dht.fail"} =>
    exitCode # "none"

\* The signal was received before the server was listening, its handler has
\* returned, and the process is now serving with no shutdown in progress.
C18_SignalIgnored ==
  /\ Logged("sigint")
  /\ LastLogged = "returned"
  /\ Running
  /\ listening

\* What getFileMetadata answers for a record stored as a: its path, its name
\* and its size in decimal digits.
Holds(got, a) ==
  /\ Len(got) = 1
  /\ got[1].fileId = a.fileId
  /\ got[1].filePath = a.filePath
  /\ got[1].fileName = a.fileName
  /\ got[1].fileSize = ToString(a.fileSize)
  /\ ParseInt(got[1].fileSize) = a.fileSize

\* C19: MetadataStore round trip.  After storeFileMetadata succeeds,
\* fileExists is true, getFileMetadata returns the stored path, name and size
\* and getAllFiles contains that record; storing a record the table already
\* holds leaves getFileMetadata's answer as it was; after deleteFileMetadata
\* succeeds, fileExists is false and getFileMetadata returns absent.
C19_RoundTrip ==
  [][\A k \in StoreCallers :
       /\ StoreFileMetadataDone(k) =>
            LET a == calls[k].args
                before == db_getFileMetadata(db, a.fileId)
                got == db_getFileMetadata(db', a.fileId)
            IN  /\ db_fileExists(db', a.fileId, TRUE)
                /\ Holds(got, a)
                /\ \E i \in 1..Len(db') : db_getAllFiles(db')[i] = got[1]
                /\ Holds(before, a) => got = before
       /\ DeleteFileMetadataDone(k) =>
            /\ ~db_fileExists(db', calls[k].args.fileId, TRUE)
            /\ db_getFileMetadata(db', calls[k].args.fileId) = <<>>]_vars

\* Both clients have stored the same record, and the record the table holds
\* carries the later timestamp.
C19_StoredTwice ==
  /\ calls[1].st = "ok"
  /\ calls[2].st = "ok"
  /\ "filePath" \in DOMAIN calls[1].args
  /\ calls[1].args = calls[2].args
  /\ LET got == db_getFileMetadata(db, calls[1].args.fileId)
     IN  Holds(got, calls[1].args) /\ got[1].uploadedAt = 1

\* The file id a client's store operation in flight is about.
TargetOf(k) == calls[k].args.fileId

\* C20: the store holds at most one record per fileId in every state reached
\* by puts and deletes, concurrent ones included, and a step changes the
\* record of a fileId only if it applies a put or a delete of that fileId.
C20_OneRecordPerId ==
  /\ [](\A i, j \in 1..Len(db) : db[i].file_id = db[j].file_id => i = j)
  /\ [][\A f \in FileIds :
          db_getFileMetadata(db', f) # db_getFileMetadata(db, f) =>
            \E k \in StoreCallers :
              /\ StoreFileMetadataDone(k) \/ DeleteFileMetadataDone(k)
              /\ TargetOf(k) = f]_vars

\* Two clients have put different versions of one id concurrently, both puts
\* have been applied, and the table also holds a record of another id.
C20_Witness ==
  /\ calls[1].st = "ok"
  /\ calls[2].st = "ok"
  /\ "filePath" \in DOMAIN calls[1].args
  /\ "filePath" \in DOMAIN calls[2].args
  /\ calls[1].args.fileId = calls[2].args.fileId
  /\ calls[1].args.filePath # calls[2].args.filePath
  /\ Len(db) = 2
  /\ \E i \in 1..Len(db) : db[i].file_id # calls[1].args.fileId

\* C21: a delete that is applied changes only the durable record of its
\* fileId; the backing files, the local mapping and the DHT membership are as
\* before, and a peer request for an announced id whose file is on disk is
\* answered with success whether or not the durable record still exists.
C21_DeleteFrame ==
  [][/\ DeleteFileMetadataDone(DeleteCaller) =>
          /\ disk' = disk
          /\ storedFiles' = storedFiles
          /\ fileIdToPath' = fileIdToPath
          /\ joinState' = joinState
          /\ \A f \in FileIds \ {TargetOf(DeleteCaller)} :
               db_getFileMetadata(db', f) = db_getFileMetadata(db, f)
          /\ db_getFileMetadata(db', TargetOf(DeleteCaller)) = <<>>
     /\ \A f \in FileIds :
          ( /\ SendsRequest(PeerConn, f)
            /\ hasFile(f)
            /\ existsSync(storedFiles[f].filePath) ) =>
              RoundTripResponse(PeerConn, f)]_vars

\* The record of the announced id has been deleted from the store, and the
\* peer's request for that id has been answered with success.
C21_Witness ==
  /\ calls[DeleteCaller].st = "ok"
  /\ calls[DeleteCaller].kind = "db"
  /\ calls[DeleteCaller].args.fileId = <<"a">>
  /\ db_getFileMetadata(db, <<"a">>) = <<>>
  /\ hasFile(<<"a">>)
  /\ writes[PeerConn] = 1
  /\ lastWrite[PeerConn][1].success
  /\ lastWrite[PeerConn][1].fileId = <<"a">>

\* C22: an operation that finds the store unavailable reports an error to its
\* caller and never a normal-looking answer, and the process keeps running:
\* a failed put or delete throws and leaves the table as it was, and a failed
\* existence query does not answer false.
C22_StoreFailureSurfaced ==
  [][/\ \A k \in StoreCallers :
          StoreExecuteFail(k) =>
            /\ calls'[k].st = "err"
            /\ db' = db
            /\ exitCode' = "none"
     /\ \A f \in FileIds :
          FileExists(f, FALSE) =>
            /\ httpLog' # <<"fileExists", f, FALSE>>
            /\ exitCode' = "none"]_vars

\* No put or delete was ever issued, the table holds a record of id a, and
\* fileExists has answered false for it.
C22_PresentAnsweredFalse ==
  /\ \A k \in Callers : calls[k].st = "idle"
  /\ db_fileExists(db, <<"a">>, TRUE)
  /\ httpLog = <<"fileExists", <<"a">>, FALSE>>

\* C23: logAccess is best-effort.  When its INSERT fails it returns false
\* without throwing: the process keeps running and the step changes neither
\* the access log nor the table of files nor the node's mapping; when the
\* INSERT is applied it returns true and the log has one row more.
C23_LogAccessBestEffort ==
  [][\A f \in FileIds :
       /\ LogAccess(f, "client", "download", FALSE) =>
            /\ exitCode' = "none"
            /\ httpLog' = <<"logAccess", FALSE>>
            /\ accessLogs' = accessLogs
            /\ db' = db
            /\ storedFiles' = storedFiles
       /\ LogAccess(f, "client", "download", TRUE) =>
            /\ exitCode' = "none"
            /\ httpLog' = <<"logAccess", TRUE>>
            /\ Len(EntriesOf(accessLogs', f)) = Len(EntriesOf(accessLogs, f)) + 1]_vars

\* logAccess has failed after an earlier append: its answer is false, the
\* process runs and the earlier row is still there.
C23_Witness ==
  /\ httpLog = <<"logAccess", FALSE>>
  /\ Len(accessLogs) = 1
  /\ Running

\* C24: every retrieval that sends a file appends exactly one access-log
\* entry for that fileId, and no step removes or changes an entry: the log of
\* each step's end state extends the log of its start state.
C24_RetrievalLogged ==
  [][/\ \A f \in FileIds :
          (RetrieveFile(f, TRUE) /\ RetrieveStatus(f, TRUE) = 200) =>
            Len(EntriesOf(accessLogs', f)) = Len(EntriesOf(accessLogs, f)) + 1
     /\ Len(accessLogs') >= Len(accessLogs)
     /\ SubSeq(accessLogs', 1, Len(accessLogs)) = accessLogs]_vars

\* A file has been sent to a client and the access log is empty.
C24_RetrievedUnlogged ==
  /\ httpLog = <<"retrieve", 200>>
  /\ accessLogs = <<>>

\* C25: a lookup whose timer fires is rejected with the timeout error and is
\* not started again by the client; a lookup whose timer was cleared by a
\* connection is never rejected with the timeout error; a lookup never both
\* times out and proceeds on a connection; and a settled promise keeps its
\* outcome.
C25_LookupDeadline ==
  /\ [](/\ client.joins <= 1
        /\ client.timer = "fired" => client.promise = "timeout"
        /\ client.timer = "cleared" => client.promise # "timeout"
        /\ client.promise = "timeout" =>
             /\ client.conn = "none"
             /\ client.sent = <<>>
             /\ client.saved = 0)
  /\ [][client.promise \notin {"none", "pending"} =>
          client'.promise = client.promise]_vars

\* The lookup was rejected with the timeout error, and the client has since
\* sent its request on a connection and written the file it received.
C25_TimedOutAndProceeded ==
  /\ client.kind = "download"
  /\ client.promise = "timeout"
  /\ client.timer = "fired"
  /\ client.sent # <<>>
  /\ client.saved = 1

TableType(e) ==
  CASE e = <<"t", "x", "t">> -> "text/plain"
    [] e = <<"p", "d", "f">> -> "application/pdf"
    [] e \in { <<"j", "p", "g">>, <<"j", "p", "e", "g">> } -> "image/jpeg"
    [] e = <<"p", "n", "g">> -> "image/png"
    [] e = <<"g", "i", "f">> -> "image/gif"
    [] e = <<"j", "s", "o", "n">> -> "application/json"
    [] e = <<"z", "i", "p">> -> "application/zip"
    [] e = <<"d", "o", "c">> -> "application/msword"
    [] e = <<"d", "o", "c", "x">> ->
         "application/vnd.openxmlformats-officedocument.wordprocessingml.document"
    [] e = <<"m", "p", "4">> -> "video/mp4"
    [] e = <<"m", "p", "3">> -> "audio/mpeg"

\* This step is a call of getMimeType for fileName.
Asked(fileName) ==
  /\ Len(httpLog') = 3
  /\ httpLog'[1] = "getMimeType"
  /\ httpLog'[2] = fileName
  /\ GetMimeType(fileName)

\* C27: a name that ends in a dot and a table extension, in any casing, after
\* a non-empty stem gets the table's type for the lower-case extension; a
\* name whose extension is not in the table, a dot file and a name without a
\* dot get application/octet-stream.
C27_MimeTable ==
  [][/\ \A stem \in Stems, e \in TableExts \cup OtherExts, how \in Casings :
          Asked(stem \o <<".">> \o Cased(e, how)) =>
            httpLog'[3] = IF stem # <<>> /\ e \in TableExts
                          THEN TableType(e)
                          ELSE "application/octet-stream"
     /\ \A e \in TableExts, how \in Casings :
          Asked(Cased(e, how)) => httpLog'[3] = "application/octet-stream"]_vars

\* The type of a name whose extension is written in upper case was asked for
\* and is the table's type for the lower-case extension.
C27_Witness ==
  /\ Len(httpLog) = 3
  /\ httpLog[1] = "getMimeType"
  /\ httpLog[2] = <<"a", ".", "D", "O", "C", "X">>
  /\ httpLog[3] = TableType(<<"d", "o", "c", "x">>)

\* C28: a request whose fileId is not a well-formed UUIDv4 is answered with a
\* validation error, and the step that answers it consults neither the local
\* mapping nor the disk.  On the peer protocol: the dispatching step counts no
\* lookup and no file read and writes the validation error.
C28_MalformedRejected ==
  [][\A c \in Conns :
       (Dispatches(c) /\ ~IsUuidV4(Trim(requestData'[c]))) =>
         /\ lookups'[c] = lookups[c]
         /\ diskReads'[c] = diskReads[c]
         /\ lastWrite'[c] # <<>>
         /\ ~lastWrite'[c][1].success
         /\ lastWrite'[c][1].error = "Invalid file ID"]_vars

\* A peer has sent a line that holds no well-formed id; the mapping was
\* looked up for it and the answer is 'File not found'.
C28_MalformedLookedUp ==
  \E c \in Conns :
    /\ RequestComplete(requestData[c])
    /\ ~IsUuidV4(Trim(requestData[c]))
    /\ lookups[c] = 1
    /\ writes[c] = 1
    /\ ~lastWrite[c][1].success
    /\ lastWrite[c][1].error = "File not found"

\* C29: rehydration never changes the MetadataStore: no step of the startup
\* pass changes the table of durable records, and a record whose backing file
\* is absent stays in the table and is neither announced nor registered in
\* the local mapping.
C29_RehydrationReadOnly ==
  /\ [](\A i \in 1..Len(db) :
          ~existsSync(db[i].file_path) =>
            /\ db[i].file_id \notin DOMAIN storedFiles
            /\ \A n \in 1..Len(rehydrateLog) :
                 rehydrateLog[n].kind = "announce" =>
                   rehydrateLog[n].fileId # db[i].file_id)
  /\ [][db' = db]_vars

\* The pass has returned over a table of two records, one with its backing
\* file on disk and announced, the other reported missing and still stored.
C29_Witness ==
  /\ rpc = "done"
  /\ Len(db) = 2
  /\ Len(files) = 2
  /\ \E i, j \in 1..2 :
       /\ existsSync(db[i].file_path)
       /\ db[i].file_id \in DOMAIN storedFiles
       /\ ~existsSync(db[j].file_path)
       /\ db[j].file_id \notin DOMAIN storedFiles
       /\ \E n \in 1..Len(rehydrateLog) :
            rehydrateLog[n] = [kind |-> "missing", fileId |-> db[j].file_id]

\* C30: for every upload the durable put is issued before the announce and
\* the announce is issued only if the put succeeded.  While an upload waits
\* for its put, the put has been issued and its id is not in the local
\* mapping; the step that ends the wait either stores the record and
\* announces it, or, when storeFileMetadata failed, leaves the store and the
\* local mapping as they were and answers 500.
C30_PutBeforeAnnounce ==
  /\ [](\A k \in Callers :
          (calls[k].kind = "upload" /\ calls[k].st = "put") =>
            /\ "put" \in storeOps
            /\ calls[k].args.fileId \notin DOMAIN storedFiles
            /\ calls[k].args.fileId \notin DOMAIN fileIdToPath)
  /\ [][\A k \in Callers :
          (calls[k].kind = "upload" /\ calls[k].st = "put"
             /\ calls'[k].st # "put") =>
            \/ /\ calls'[k].st = "flush"
               /\ db_getFileMetadata(db', calls[k].args.fileId) # <<>>
               /\ db_getFileMetadata(db', calls[k].args.fileId)[1].filePath
                    = calls[k].args.filePath
               /\ calls[k].args.fileId \in DOMAIN storedFiles'
            \/ /\ calls'[k].st = "err"
               /\ db' = db
               /\ UNCHANGED serviceVars
               /\ httpLog' = <<"upload", 500>>]_vars

\* An upload's put has failed: it was answered 500, the record is not in the
\* store and its id is in neither local map.
C30_Witness ==
  \E k \in Callers :
    /\ calls[k].kind = "upload"
    /\ calls[k].st = "err"
    /\ httpLog = <<"upload", 500>>
    /\ db_getFileMetadata(db, calls[k].args.fileId) = <<>>
    /\ calls[k].args.fileId \notin DOMAIN storedFiles
    /\ calls[k].args.fileId \notin DOMAIN fileIdToPath

\* ------------------------------------------- peers during rehydration

\* The table of a node restarted with two persisted files, both on disk.
RehydrateTable ==
  << CHOOSE r \in RowPool : r.file_id = <<"a">>,
     CHOOSE r \in RowPool : r.file_id = <<"b">> >>

InitRehydrate == ProcessInit(RehydrateTable, [p \in Paths |-> StartContent(p)])

RehydrateChunks == { <<"a", NL>>, <<"b", NL>> }

\* A peer that found the node through a topic it has joined connects: the
\* connection handler is registered by the constructor, and the swarm accepts
\* connections from its first join on.
DiscoveredConnect(c) ==
  /\ \E t \in Topics : joinState[t] # "none"
  /\ Connect(c)

\* Startup of either entry point with peers connecting as soon as the node
\* can be found.
NextRehydrate ==
  \/ Load
  \/ InitializeDone
  \/ InitializeFail
  \/ RehydrateListDone
  \/ RehydrateListFail
  \/ RehydrateAnnounceReturn
  \/ RehydrateAnnounceThrow
  \/ \E t \in Topics : JoinPropagate(t)
  \/ \E c \in Conns : DiscoveredConnect(c)
  \/ \E c \in Conns, d \in RehydrateChunks : Data(c, d)
  \/ \E c \in Conns : TimerEnd(c)
  \/ \E c \in Conns : PeerClose(c)

SpecRehydrate == InitRehydrate /\ [][NextRehydrate]_vars

\* The durable record of fileId exists and its backing file is on disk.
PersistedAndPresent(fileId) ==
  \E i \in 1..Len(db) : db[i].file_id = fileId /\ existsSync(db[i].file_path)

\* C31: no inbound peer request is dispatched against the local mapping
\* before rehydration has completed its pass, and a peer asking for a
\* persisted fileId whose file is present is never answered 'File not found'.
C31_NoDispatchBeforeRehydrated ==
  [][\A c \in Conns :
       Dispatches(c) =>
         /\ rpc = "done"
         /\ (PersistedAndPresent(Trim(requestData'[c])) /\ lastWrite'[c] # <<>>) =>
              lastWrite'[c][1].success]_vars

\* server.js is waiting for the flush of the first record's announce; a peer
\* that connected meanwhile asked for the second record, which is persisted
\* with its file on disk, and was answered 'File not found'.
C31_AskedBeforeAnnounced ==
  \E c \in Conns :
    /\ variant = "server.js"
    /\ pc = "rehydrate"
    /\ rpc = "announce"
    /\ idx = 1
    /\ requestData[c] = <<"b", NL>>
    /\ PersistedAndPresent(<<"b">>)
    /\ <<"b">> \notin DOMAIN storedFiles
    /\ lastWrite[c] # <<>>
    /\ ~lastWrite[c][1].success
    /\ lastWrite[c][1].error = "File not found"

\* C32: the file read of a dispatch is non-blocking: the read and the
\* response write of one connection are not a single uninterruptible step,
\* so the step in which a connection's file is read does not also look the
\* id up and write the response.
C32_ReadNotBlocking ==
  [][\A c \in Conns :
       diskReads'[c] # diskReads[c] =>
         /\ writes'[c] = writes[c]
         /\ lookups'[c] = lookups[c]]_vars

\* Connection 2 has been looked up, read and answered with the file while
\* connection 1 was open in the middle of its own request: no state lies
\* between the start of the read and the write in which 1 could have acted.
C32_ReadAndWriteInOneStep ==
  /\ connState[1] = "open"
  /\ requestData[1] = <<"a">>
  /\ lookups[1] = 0
  /\ connState[2] = "open"
  /\ lookups[2] = 1
  /\ diskReads[2] = 1
  /\ writes[2] = 1
  /\ timers[2] = 1
  /\ lastWrite[2] # <<>>
  /\ lastWrite[2][1].success

\* C33: while the bytes accumulated on a connection contain no newline, the
\* server has performed no lookup, read no file, written nothing and not
\* scheduled the close of the connection; a chunk that leaves the buffer
\* without a newline only extends the buffer.
C33_NoNewlineNoDispatch ==
  /\ [](\A c \in Conns :
          ~Includes(requestData[c], NL) =>
            /\ lookups[c] = 0
            /\ diskReads[c] = 0
            /\ writes[c] = 0
            /\ lastWrite[c] = <<>>
            /\ timers[c] = 0
            /\ connState[c] # "ended")
  /\ [][\A c \in Conns :
          (requestData'[c] # requestData[c] /\ ~Includes(requestData'[c], NL)) =>
            /\ connState'[c] = "open"
            /\ UNCHANGED << lookups, diskReads, writes, lastWrite, timers,
                            connState, serviceVars, disk >>]_vars

\* A connection has received two chunks without a newline, for a file that
\* is announced, and is still open and unanswered.
C33_Witness ==
  \E c \in Conns :
    /\ connState[c] = "open"
    /\ Len(requestData[c]) >= 2
    /\ ~Includes(requestData[c], NL)
    /\ <<requestData[c][1]>> \in DOMAIN storedFiles
    /\ lookups[c] = 0
    /\ writes[c] = 0
    /\ timers[c] = 0

\* The ids of the announceFile calls that have been invoked and have not
\* returned normally: waiting for the flush, or failed.
Unfinished == { calls[k].args.fileId :
                  k \in { x \in Callers : calls[x].st \in {"flush", "err"} } }

\* C34: announceFile registers the fileId before it joins and waits: from
\* the invocation on hasFile(fileId) is true, also while the join is still
\* propagating and after the flush has failed, and a peer request for the
\* fileId made then is answered from the entry (with the file when it can be
\* read), never with 'File not found'.
C34_RegisteredBeforeJoin ==
  /\ [](\A k \in Callers :
          calls[k].st # "idle" =>
            /\ hasFile(calls[k].args.fileId)
            /\ getFilePath(calls[k].args.fileId) # <<>>
            /\ getFileMetadata(calls[k].args.fileId) # <<>>
            /\ joinState[Topic(calls[k].args.fileId)] # "none")
  /\ [][\A c \in Conns :
          (Dispatches(c) /\ connState[c] = "open"
             /\ Trim(requestData'[c]) \in Unfinished) =>
            /\ lastWrite'[c] # <<>>
            /\ IF existsSync(storedFiles[Trim(requestData'[c])].filePath)
               THEN lastWrite'[c][1].success
               ELSE /\ ~lastWrite'[c][1].success
                    /\ lastWrite'[c][1].error = "Failed to read file"]_vars

\* The flush of announceFile(b) has failed while the join was still
\* propagating, and a peer that asked for b afterwards was sent the file.
C34_Witness ==
  \E k \in Callers, c \in Conns :
    /\ calls[k].st = "err"
    /\ calls[k].args.fileId = <<"b">>
    /\ joinState[Topic(<<"b">>)] = "pending"
    /\ hasFile(<<"b">>)
    /\ requestData[c] = <<"b", NL>>
    /\ lastWrite[c] # <<>>
    /\ lastWrite[c][1].success

\* --------------------------------------- shutdown with handlers in flight

\* A listening server.js node with any persisted table and one uploaded file
\* waiting on disk.
InitDrain == InitDelete

\* The facade handlers and the SIGINT handler interleave: server.close()
\* stops new requests, while a handler that is waiting on an await goes on
\* when its promise settles.
NextDrain ==
  \/ \E a \in UploadArgs : UploadFile(PeerCaller, a)
  \/ UploadPutDone(PeerCaller)
  \/ UploadPutFail(PeerCaller)
  \/ AnnounceReturn(PeerCaller)
  \/ AnnounceThrow(PeerCaller)
  \/ \E t \in Topics : JoinPropagate(t)
  \/ \E f \in FileIds, ok \in BOOLEAN : RetrieveFile(f, ok)
  \/ \E ok \in BOOLEAN : ListFiles(ok)
  \/ Sigint
  \/ DhtShutdownDone
  \/ DhtShutdownFail
  \/ \E ok \in BOOLEAN : StoreShutdownDone(ok)

SpecDrain == InitDrain /\ [][NextDrain]_vars

\* C35: after a shutdown signal no handler that was already in flight issues
\* a MetadataStore operation once db.shutdown has begun, or an announce once
\* the DHT membership has been left.
C35_NoCallAfterLeave ==
  [][\A k \in Callers :
       /\ (calls[k].st # "put" /\ calls'[k].st = "put") => ~Logged("store.begin")
       /\ (calls[k].st = "put" /\ calls'[k].st = "flush") => ~Logged("dht.end")]_vars

\* The SIGINT handler has left the DHT and is closing the store; the upload
\* that was waiting for its put has since called announceFile and is waiting
\* for the flush of a swarm that was destroyed.
C35_AnnouncedAfterLeave ==
  \E k \in Callers :
    /\ Running
    /\ LastLogged = "store.begin"
    /\ calls[k].kind = "upload"
    /\ calls[k].st = "flush"
    /\ hasFile(calls[k].args.fileId)
    /\ joinState[Topic(calls[k].args.fileId)] = "pending"

\* C36: once a client lookup has failed with the timeout error, a connection
\* that arrives later sends no request, writes no file and leaves the settled
\* outcome as it is.
C36_LateConnectionIgnored ==
  [][client.promise = "timeout" =>
       /\ client'.promise = "timeout"
       /\ client'.sent = client.sent
       /\ client'.saved = client.saved]_vars

\* The download was rejected with the timeout error; a connection that
\* arrived afterwards was sent the request line and is open, waiting for the
\* response.
C36_RequestSentAfterTimeout ==
  /\ client.kind = "download"
  /\ client.promise = "timeout"
  /\ client.settles = 1
  /\ client.conn = "open"
  /\ client.sent = Append(client.fileId, NL)
  /\ client.saved = 0

\* ------------------------------------------------ client lookups, live

\* The runtime fires a timer that is armed; nothing obliges a storage node to
\* connect, to answer or to end a connection.
SpecClientLive == SpecClient /\ WF_vars(LookupTimeout)

\* C37: every findAndDownload call eventually settles, whatever the storage
\* node does after the connection is established.
C37_DownloadSettles ==
  (client.kind = "download" /\ client.promise = "pending")
    ~> (client.promise # "pending")

\* The connection of a download failed with a reset after the timer had been
\* cleared: the promise is pending and no handler is left that settles it.
C37_PendingForever ==
  /\ client.kind = "download"
  /\ client.promise = "pending"
  /\ client.timer = "cleared"
  /\ client.conn = "failed"
  /\ client.settles = 0
  /\ ~ENABLED LookupTimeout
  /\ ~ENABLED LookupConnection
  /\ \A r \in {"file", "error", "unparsable"} : ~ENABLED LookupEnd(r)
  /\ \A code \in {"ECONNRESET", "EPIPE"} : ~ENABLED LookupConnError(code)

\* C38: without deletes, every fileId in the node's local mapping has a
\* durable record in the MetadataStore with the same filePath and fileName.
C38_MappingBackedByStore ==
  \A f \in DOMAIN storedFiles :
    \E i \in 1..Len(db) :
      /\ db[i].file_id = f
      /\ db[i].file_path = storedFiles[f].filePath
      /\ db[i].file_name = storedFiles[f].fileName
      /\ f \in DOMAIN fileIdToPath
      /\ db[i].file_path = fileIdToPath[f]

\* The mapping holds a record announced by rehydration and one announced by
\* an upload that has been answered 200.
C38_Witness ==
  /\ rpc = "done"
  /\ \E n \in 1..Len(rehydrateLog) :
       /\ rehydrateLog[n].kind = "announce"
       /\ rehydrateLog[n].fileId \in DOMAIN storedFiles
  /\ \E k \in Callers :
       /\ calls[k].kind = "upload"
       /\ calls[k].st = "ok"
       /\ calls[k].args.fileId \in DOMAIN storedFiles
  /\ Cardinality(DOMAIN storedFiles) = 2
  /\ Len(db) = 2

\* C39: the two local maps stay consistent: storedFiles and fileIdToPath have
\* the same keys, getFilePath(fileId) is the filePath of
\* getFileMetadata(fileId), and hasFile(fileId) is true exactly when
\* getFilePath(fileId) is defined.
C39_MapsConsistent ==
  /\ DOMAIN storedFiles = DOMAIN fileIdToPath
  /\ \A f \in FileIds :
       /\ hasFile(f) <=> getFilePath(f) # <<>>
       /\ hasFile(f) <=> getFileMetadata(f) # <<>>
       /\ hasFile(f) => getFilePath(f) = <<getFileMetadata(f)[1].filePath>>

\* Id a was announced by one caller with path p1 and by another with path
\* p2, and both maps hold p2.
C39_Witness ==
  /\ calls[1].st # "idle"
  /\ calls[2].st # "idle"
  /\ calls[1].args.fileId = <<"a">>
  /\ calls[1].args.filePath = "p1"
  /\ calls[2].args.fileId = <<"a">>
  /\ calls[2].args.filePath = "p2"
  /\ getFilePath(<<"a">>) = <<"p2">>
  /\ getFileMetadata(<<"a">>)[1].filePath = "p2"

====
